---------------------------- MODULE Spec2Model ----------------------------
(* A model of the NES emulator: the CPU step loop (cpu.rs), the Bus      *)
(* (bus.rs) and the PPU with its registers (ppu/).                        *)
(*                                                                        *)
(* The machine state is held in three records named after the structs    *)
(* of the source, cpu, bus and ppu, each with the fields of its struct.  *)
(* obs holds observations of the last operation (what it returned, what  *)
(* it did); it is not state of the program.                              *)
(*                                                                        *)
(* Specifications:                                                        *)
(*   Spec       the CPU step loop driving Bus and PPU from reset          *)
(*   SpecFrame  PPU::tick and the NMI poll alone, over one frame          *)
(*   SpecRegs   the PPU's register methods ($2000, $2002, $2005, $2006)   *)
(*   SpecStack  the CPU's stack primitives                                *)
(*   SpecFlags  PHP and PLP                                               *)
EXTENDS Integers, Sequences, FiniteSets, TLC

VARIABLES cpu, bus, ppu, run, obs

vars == <<cpu, bus, ppu, run, obs>>

--------------------------------------------------------------------------
(* Program constants *)

FRAME_SCANLINE_LIMIT == 262
VBLANK_SCANLINE_LIMIT == 241
SCANLINE_PPU_CYCLE_LIMIT == 341
STACK == 256
RAM_ADDRESS_SPACE_END == 8191
PPU_ADDRESS_SPACE_START == 8192
PPU_ADDRESS_SPACE_END == 16383

\* The cycle counts of the opcode table's dispatched entries.
InstrCycles == 2..8

\* interrupt_nmi ticks the bus by 2.
NmiCycles == 2

--------------------------------------------------------------------------
(* Bounds of the model *)

\* Spec stops stepping once the Bus has counted this many CPU cycles
\* (one frame is 29,780.67 CPU cycles).
MaxCycles == 29800

\* Spec: NMI services per run.
MaxService == 2

\* SpecRegs, SpecStack, SpecFlags, SpecRam: operations per run.
MaxOps == 3

\* SpecData: operations per run.
MaxDataOps == 4
MaxAddrOps == 4
MaxOamOps == 3
MaxSpriteDots == 1100

--------------------------------------------------------------------------
(* u8 / u16 arithmetic *)

Byte == 0..255

RECURSIVE BitAnd(_, _)
BitAnd(a, b) ==
    IF a = 0 \/ b = 0 THEN 0
    ELSE (IF a % 2 = 1 /\ b % 2 = 1 THEN 1 ELSE 0) + 2 * BitAnd(a \div 2, b \div 2)

\* bitflags contains(): mask is a single bit.
Contains(bits, mask) == (bits \div mask) % 2 = 1

\* bitflags insert() / remove() of a single bit.
Insert(bits, mask) == IF Contains(bits, mask) THEN bits ELSE bits + mask
Remove(bits, mask) == IF Contains(bits, mask) THEN bits - mask ELSE bits

wrapping_add(a, b) == (a + b) % 256
wrapping_sub(a, b) == (a - b + 256) % 256

\* Option<u8>
None == <<>>
Some(x) == <<x>>

--------------------------------------------------------------------------
(* PPU registers: reg_controller.rs, reg_status.rs, reg_mask.rs,        *)
(* reg_addr.rs, reg_scroll.rs                                           *)

VRAM_ADDR_INCREMENT == 4
GENERATE_NMI == 128
SPRITE_ZERO_HIT == 64
VBLANK_STARTED == 128
SHOW_SPRITES == 16

\* PPUCTRL::generate_nmi is called by PPU::tick and write_to_reg_ctrl; it
\* tests CTRL bit 7, the GENERATE_NMI flag.
generate_nmi(ctrl) == Contains(ctrl, GENERATE_NMI)
in_vblank(status) == Contains(status, VBLANK_STARTED)
is_sprite_enabled(mask) == Contains(mask, SHOW_SPRITES)

\* PPUCTRL::update: from_bits_truncate keeps all eight bits, each is a flag.
ctrl_update(value) == value

PPUADDR_new == [hh |-> 0, ll |-> 0, first_write |-> TRUE]
PPUSCROLL_new == [scx |-> 0, scy |-> 0, write_latch |-> FALSE]

addr_get(a) == a.hh * 256 + a.ll

addr_set(a, value) == [a EXCEPT !.hh = value \div 256, !.ll = value % 256]

addr_update(a, data) ==
    LET a1 == IF a.first_write THEN [a EXCEPT !.hh = data]
                               ELSE [a EXCEPT !.ll = data]
        a2 == [a1 EXCEPT !.first_write = ~a.first_write]
    IN IF addr_get(a2) > 16383 THEN addr_set(a2, BitAnd(addr_get(a2), 16383))
                               ELSE a2

addr_reset(a) == [a EXCEPT !.first_write = TRUE]

\* PPUADDR::increment without the carry into hh.
addr_increment_no_carry(a, inc) == [a EXCEPT !.ll = wrapping_add(a.ll, inc)]

\* PPUADDR::increment: the carry into hh when ll wraps, then the mask.
addr_increment(a, inc) ==
    LET ll == wrapping_add(a.ll, inc)
        a1 == [a EXCEPT !.ll = ll,
                        !.hh = IF a.ll > ll THEN wrapping_add(a.hh, 1) ELSE a.hh]
    IN IF addr_get(a1) > 16383 THEN addr_set(a1, BitAnd(addr_get(a1), 16383))
                               ELSE a1

write_scroll(s, value) ==
    LET s1 == IF ~s.write_latch THEN [s EXCEPT !.scx = value]
                                ELSE [s EXCEPT !.scy = value]
    IN [s1 EXCEPT !.write_latch = ~s.write_latch]

reset_scroll(s) == [s EXCEPT !.write_latch = FALSE]

--------------------------------------------------------------------------
(* PPU: ppu/mod.rs *)

\* oam_data is zero-filled at construction; only written bytes are kept.
OamByte(p, i) == IF i \in DOMAIN p.oam_data THEN p.oam_data[i] ELSE 0

\* The size of one CHR bank of a cartridge image.
VROM_BANK_SIZE == 8192

\* The CHR-ROM of the cartridge: image content, an input of the model.
\* The PPU's chr_rom field holds its length.
ChrRomByte(i) == (i * 37 + 11) % 256

\* PPU::new for a cartridge with one CHR bank and horizontal mirroring.
\* palette_table and vram are zero-filled; only written bytes are kept.
PPU_new ==
    [ chr_rom |-> VROM_BANK_SIZE,
      palette_table |-> <<>>,
      vram |-> <<>>,
      mirroring |-> "Horizontal",
      internal_data_buffer |-> 0,
      reg_address |-> PPUADDR_new,
      reg_controller |-> 0,
      reg_status |-> 0,
      reg_mask |-> 0,
      reg_scroll |-> PPUSCROLL_new,
      oam_data |-> <<>>,
      oam_address |-> 0,
      scanline |-> 0,
      cycles |-> 0,
      nmi_interrupt |-> None ]

poll_sprite_zero_hit(p, cycle) ==
    /\ OamByte(p, 0) = p.scanline
    /\ OamByte(p, 3) <= cycle
    /\ is_sprite_enabled(p.reg_mask)

\* PPU::tick that sets the dot counter to zero at the end of a scanline,
\* dropping the dots beyond 341 (and without the sprite-zero poll).
PpuTickEatingCycles(p, dots) ==
    LET c1 == p.cycles + dots
    IN IF c1 >= SCANLINE_PPU_CYCLE_LIMIT
       THEN LET sl == p.scanline + 1
                vb == sl = VBLANK_SCANLINE_LIMIT
                st == IF vb THEN Insert(p.reg_status, VBLANK_STARTED) ELSE p.reg_status
                nm == IF vb /\ generate_nmi(p.reg_controller) THEN Some(1) ELSE p.nmi_interrupt
            IN IF sl >= FRAME_SCANLINE_LIMIT
               THEN [ppu |-> [p EXCEPT !.cycles = 0, !.scanline = 0, !.nmi_interrupt = None,
                                       !.reg_status = Remove(Remove(st, SPRITE_ZERO_HIT), VBLANK_STARTED)],
                     frame_complete |-> TRUE]
               ELSE [ppu |-> [p EXCEPT !.cycles = 0, !.scanline = sl, !.nmi_interrupt = nm,
                                       !.reg_status = st],
                     frame_complete |-> FALSE]
       ELSE [ppu |-> [p EXCEPT !.cycles = c1], frame_complete |-> FALSE]

\* PPU::tick that latches the NMI on every scanline of the vertical blank
\* (>= where the source compares with ==).
PpuTickLatchEveryLine(p, dots) ==
    LET c1 == p.cycles + dots
    IN IF c1 >= SCANLINE_PPU_CYCLE_LIMIT
       THEN LET sl == p.scanline + 1
                vb == sl >= VBLANK_SCANLINE_LIMIT
                st == IF vb THEN Insert(p.reg_status, VBLANK_STARTED) ELSE p.reg_status
                nm == IF vb /\ generate_nmi(p.reg_controller) THEN Some(1) ELSE p.nmi_interrupt
            IN IF sl >= FRAME_SCANLINE_LIMIT
               THEN [ppu |-> [p EXCEPT !.cycles = c1 - SCANLINE_PPU_CYCLE_LIMIT, !.scanline = 0,
                                       !.nmi_interrupt = None,
                                       !.reg_status = Remove(Remove(st, SPRITE_ZERO_HIT), VBLANK_STARTED)],
                     frame_complete |-> TRUE]
               ELSE [ppu |-> [p EXCEPT !.cycles = c1 - SCANLINE_PPU_CYCLE_LIMIT, !.scanline = sl,
                                       !.nmi_interrupt = nm, !.reg_status = st],
                     frame_complete |-> FALSE]
       ELSE [ppu |-> [p EXCEPT !.cycles = c1], frame_complete |-> FALSE]

\* PPU::tick without the rollover at the end of the frame.
PpuTickNoFrameWrap(p, dots) ==
    LET c1 == p.cycles + dots
    IN IF c1 >= SCANLINE_PPU_CYCLE_LIMIT
       THEN LET st1 == IF poll_sprite_zero_hit(p, c1)
                       THEN Insert(p.reg_status, SPRITE_ZERO_HIT)
                       ELSE p.reg_status
                sl == p.scanline + 1
                vb == sl = VBLANK_SCANLINE_LIMIT
            IN [ppu |-> [p EXCEPT !.cycles = c1 - SCANLINE_PPU_CYCLE_LIMIT, !.scanline = sl,
                                  !.nmi_interrupt = IF vb /\ generate_nmi(p.reg_controller)
                                                    THEN Some(1) ELSE @,
                                  !.reg_status = IF vb
                                                 THEN Remove(Insert(st1, VBLANK_STARTED),
                                                             SPRITE_ZERO_HIT)
                                                 ELSE st1],
                frame_complete |-> FALSE]
       ELSE [ppu |-> [p EXCEPT !.cycles = c1], frame_complete |-> FALSE]

\* PPU::tick that leaves the status flags as they are at the start of the
\* vertical blank.
PpuTickNoStatusAtVblank(p, dots) ==
    LET c1 == p.cycles + dots
    IN IF c1 >= SCANLINE_PPU_CYCLE_LIMIT
       THEN LET st1 == IF poll_sprite_zero_hit(p, c1)
                       THEN Insert(p.reg_status, SPRITE_ZERO_HIT)
                       ELSE p.reg_status
                sl == p.scanline + 1
                vb == sl = VBLANK_SCANLINE_LIMIT
            IN IF sl >= FRAME_SCANLINE_LIMIT
               THEN [ppu |-> [p EXCEPT !.cycles = c1 - SCANLINE_PPU_CYCLE_LIMIT, !.scanline = 0,
                                       !.nmi_interrupt = None,
                                       !.reg_status = Remove(Remove(st1, SPRITE_ZERO_HIT),
                                                             VBLANK_STARTED)],
                     frame_complete |-> TRUE]
               ELSE [ppu |-> [p EXCEPT !.cycles = c1 - SCANLINE_PPU_CYCLE_LIMIT, !.scanline = sl,
                                       !.nmi_interrupt = IF vb /\ generate_nmi(p.reg_controller)
                                                         THEN Some(1) ELSE @,
                                       !.reg_status = st1],
                     frame_complete |-> FALSE]
       ELSE [ppu |-> [p EXCEPT !.cycles = c1], frame_complete |-> FALSE]

\* PPU::tick that leaves STATUS.VBlank and the pending NMI as they are at
\* the frame rollover.
PpuTickKeepVblankAtRollover(p, dots) ==
    LET c1 == p.cycles + dots
    IN IF c1 >= SCANLINE_PPU_CYCLE_LIMIT
       THEN LET st1 == IF poll_sprite_zero_hit(p, c1)
                       THEN Insert(p.reg_status, SPRITE_ZERO_HIT)
                       ELSE p.reg_status
                c2 == c1 - SCANLINE_PPU_CYCLE_LIMIT
                sl == p.scanline + 1
                vb == sl = VBLANK_SCANLINE_LIMIT
                st2 == IF vb
                       THEN Remove(Insert(st1, VBLANK_STARTED), SPRITE_ZERO_HIT)
                       ELSE st1
                nm == IF vb /\ generate_nmi(p.reg_controller)
                      THEN Some(1)
                      ELSE p.nmi_interrupt
            IN IF sl >= FRAME_SCANLINE_LIMIT
               THEN [ppu |-> [p EXCEPT !.cycles = c2, !.scanline = 0,
                                       !.reg_status = Remove(st2, SPRITE_ZERO_HIT)],
                     frame_complete |-> TRUE]
               ELSE [ppu |-> [p EXCEPT !.cycles = c2, !.scanline = sl,
                                       !.nmi_interrupt = nm, !.reg_status = st2],
                     frame_complete |-> FALSE]
       ELSE [ppu |-> [p EXCEPT !.cycles = c1], frame_complete |-> FALSE]

\* PPU::tick: returns the PPU after the tick and the value it returns.
PpuTick(p, dots) ==
    LET c1 == p.cycles + dots
    IN IF c1 >= SCANLINE_PPU_CYCLE_LIMIT
       THEN LET st1 == IF poll_sprite_zero_hit(p, c1)
                       THEN Insert(p.reg_status, SPRITE_ZERO_HIT)
                       ELSE p.reg_status
                c2 == c1 - SCANLINE_PPU_CYCLE_LIMIT
                sl == p.scanline + 1
                vb == sl = VBLANK_SCANLINE_LIMIT
                st2 == IF vb
                       THEN Remove(Insert(st1, VBLANK_STARTED), SPRITE_ZERO_HIT)
                       ELSE st1
                nm == IF vb /\ generate_nmi(p.reg_controller)
                      THEN Some(1)
                      ELSE p.nmi_interrupt
            IN IF sl >= FRAME_SCANLINE_LIMIT
               THEN [ppu |-> [p EXCEPT !.cycles = c2, !.scanline = 0,
                                       !.nmi_interrupt = None,
                                       !.reg_status = Remove(Remove(st2, SPRITE_ZERO_HIT), VBLANK_STARTED)],
                     frame_complete |-> TRUE]
               ELSE [ppu |-> [p EXCEPT !.cycles = c2, !.scanline = sl,
                                       !.nmi_interrupt = nm, !.reg_status = st2],
                     frame_complete |-> FALSE]
       ELSE [ppu |-> [p EXCEPT !.cycles = c1], frame_complete |-> FALSE]

\* PPU::poll_for_nmi_interrupt / Bus::poll_nmi_status: Option::take.
poll_nmi_status(p) ==
    [nmi |-> p.nmi_interrupt, ppu |-> [p EXCEPT !.nmi_interrupt = None]]

\* write_to_reg_ctrl that latches whenever the written value enables NMI in
\* the vertical blank, without looking at the previous value of bit 7.
write_to_reg_ctrl_no_edge(p, value) ==
    LET p1 == [p EXCEPT !.reg_controller = ctrl_update(value)]
    IN IF generate_nmi(p1.reg_controller) /\ in_vblank(p.reg_status)
       THEN [p1 EXCEPT !.nmi_interrupt = Some(1)]
       ELSE p1

write_to_reg_ctrl(p, value) ==
    LET previous_nmi_status == generate_nmi(p.reg_controller)
        p1 == [p EXCEPT !.reg_controller = ctrl_update(value)]
    IN IF ~previous_nmi_status /\ generate_nmi(p1.reg_controller) /\ in_vblank(p.reg_status)
       THEN [p1 EXCEPT !.nmi_interrupt = Some(1)]
       ELSE p1

write_to_reg_mask(p, value) == [p EXCEPT !.reg_mask = value]

write_to_oam_address(p, value) == [p EXCEPT !.oam_address = value]

write_to_oam_data(p, value) ==
    [p EXCEPT !.oam_data = [i \in (DOMAIN p.oam_data) \cup {p.oam_address} |->
                               IF i = p.oam_address THEN value ELSE p.oam_data[i]],
              !.oam_address = wrapping_add(p.oam_address, 1)]

read_oam_data(p) == OamByte(p, p.oam_address)

\* PPU::write_to_oam_dma: one write_to_oam_data per byte of the 256-byte
\* buffer, so data[i + 1] lands at OAM[(oam_address + i) mod 256] and
\* oam_address has gone through its 256 wrapping increments.
write_to_oam_dma(p, data) ==
    [p EXCEPT !.oam_data = [j \in 0..255 |-> data[((j + 256 - p.oam_address) % 256) + 1]],
              !.oam_address = (p.oam_address + Len(data)) % 256]

write_to_reg_addr(p, value) == [p EXCEPT !.reg_address = addr_update(p.reg_address, value)]

write_to_reg_scroll(p, value) == [p EXCEPT !.reg_scroll = write_scroll(p.reg_scroll, value)]

\* read_status that leaves the scroll latch where it is.
read_status_keep_latch(p) ==
    [value |-> p.reg_status,
     ppu |-> [p EXCEPT !.reg_status = Remove(p.reg_status, VBLANK_STARTED),
                       !.reg_address = addr_reset(p.reg_address)]]

increment_vram_address(p) ==
    [p EXCEPT !.reg_address =
        addr_increment(@, IF Contains(p.reg_controller, VRAM_ADDR_INCREMENT) THEN 32 ELSE 1)]

\* mirror_vram with the four nametables on one page.
mirror_vram_one_page(mirroring, address) == (BitAnd(address, 12287) - 8192) % 1024

\* PPU::mirror_vram, for an address in 0x2000..0x2FFF.
mirror_vram(mirroring, address) ==
    LET vram_position == BitAnd(address, 12287) - 8192
        nametable == vram_position \div 1024
    IN IF (mirroring = "Vertical" /\ nametable \in {2, 3})
          \/ (mirroring = "Horizontal" /\ nametable = 3)
       THEN vram_position - 2048
       ELSE IF mirroring = "Horizontal" /\ nametable \in {1, 2}
       THEN vram_position - 1024
       ELSE vram_position

VramByte(p, i) == IF i \in DOMAIN p.vram THEN p.vram[i] ELSE 0
PaletteByte(p, i) == IF i \in DOMAIN p.palette_table THEN p.palette_table[i] ELSE 0

Store(f, i, value) == [a \in (DOMAIN f) \cup {i} |-> IF a = i THEN value ELSE f[a]]

\* write_data without the arm of the palette's mirror addresses.
write_data_no_alias(p, value) ==
    LET address == addr_get(p.reg_address)
    IN IF address <= 8191
       THEN [ppu |-> increment_vram_address(p), panic |-> FALSE]
       ELSE IF address <= 12287
       THEN IF mirror_vram(p.mirroring, address) >= 2048
            THEN [ppu |-> p, panic |-> TRUE]
            ELSE [ppu |-> increment_vram_address(
                              [p EXCEPT !.vram = Store(@, mirror_vram(p.mirroring, address), value)]),
                  panic |-> FALSE]
       ELSE IF address >= 16128
       THEN IF address - 16128 >= 32
            THEN [ppu |-> p, panic |-> TRUE]
            ELSE [ppu |-> increment_vram_address(
                              [p EXCEPT !.palette_table = Store(@, address - 16128, value)]),
                  panic |-> FALSE]
       ELSE [ppu |-> p, panic |-> TRUE]

\* PPU::write_data: the PPU afterwards; panic is the explicit panic of the
\* range 0x3000..0x3EFF or an index beyond vram or palette_table.
write_data(p, value) ==
    LET address == addr_get(p.reg_address)
    IN IF address <= 8191
       THEN [ppu |-> increment_vram_address(p), panic |-> FALSE]
       ELSE IF address <= 12287
       THEN IF mirror_vram(p.mirroring, address) >= 2048
            THEN [ppu |-> p, panic |-> TRUE]
            ELSE [ppu |-> increment_vram_address(
                              [p EXCEPT !.vram = Store(@, mirror_vram(p.mirroring, address), value)]),
                  panic |-> FALSE]
       ELSE IF address \in {16144, 16148, 16152, 16156}
       THEN [ppu |-> increment_vram_address(
                         [p EXCEPT !.palette_table = Store(@, (address - 16) - 16128, value)]),
             panic |-> FALSE]
       ELSE IF address >= 16128
       THEN IF address - 16128 >= 32
            THEN [ppu |-> p, panic |-> TRUE]
            ELSE [ppu |-> increment_vram_address(
                              [p EXCEPT !.palette_table = Store(@, address - 16128, value)]),
                  panic |-> FALSE]
       ELSE [ppu |-> p, panic |-> TRUE]

\* PPU::read_data: the byte returned and the PPU afterwards; the address
\* is incremented before the access. panic as in write_data, or an index
\* beyond chr_rom.
read_data(p) ==
    LET address == addr_get(p.reg_address)
        p1 == increment_vram_address(p)
    IN IF address <= 8191
       THEN IF address >= p.chr_rom
            THEN [value |-> 0, ppu |-> p1, panic |-> TRUE]
            ELSE [value |-> p.internal_data_buffer,
                  ppu |-> [p1 EXCEPT !.internal_data_buffer = ChrRomByte(address)],
                  panic |-> FALSE]
       ELSE IF address <= 12287
       THEN IF mirror_vram(p.mirroring, address) >= 2048
            THEN [value |-> 0, ppu |-> p1, panic |-> TRUE]
            ELSE [value |-> p.internal_data_buffer,
                  ppu |-> [p1 EXCEPT !.internal_data_buffer =
                                        VramByte(p, mirror_vram(p.mirroring, address))],
                  panic |-> FALSE]
       ELSE IF address <= 16127
       THEN [value |-> 0, ppu |-> p1, panic |-> TRUE]
       ELSE IF address \in {16144, 16148, 16152, 16156}
       THEN [value |-> PaletteByte(p, (address - 16) - 16128), ppu |-> p1, panic |-> FALSE]
       ELSE IF address - 16128 >= 32
       THEN [value |-> 0, ppu |-> p1, panic |-> TRUE]
       ELSE [value |-> PaletteByte(p, address - 16128), ppu |-> p1, panic |-> FALSE]

\* PPU::read_status: the byte returned and the PPU afterwards.
read_status(p) ==
    [value |-> p.reg_status,
     ppu |-> [p EXCEPT !.reg_status = Remove(p.reg_status, VBLANK_STARTED),
                       !.reg_address = addr_reset(p.reg_address),
                       !.reg_scroll = reset_scroll(p.reg_scroll)]]

--------------------------------------------------------------------------
(* Cartridge and mappers: cartridge.rs, mapper/uxrom.rs, mapper/nrom.rs  *)

\* The size of one PRG bank of a cartridge image.
ROM_BANK_SIZE == 16384

\* The PRG-ROM of the cartridge: image content, an input of the model
\* (banks differ in content).
PrgRomByte(i) == ((i \div ROM_BANK_SIZE) * 101 + i * 29 + 7) % 256

UXROM_new(banks) == [kind |-> "UXROM", bank_select_register |-> 0, prg_banks |-> banks]

\* NROM has no state; prg_banks is kept for the length of the image.
NROM_new(banks) == [kind |-> "NROM", bank_select_register |-> 0, prg_banks |-> banks]

\* UXROM::map_prg: address & 0x3FFF within the bank that address <= 0xC000
\* selects.
uxrom_map_prg(m, address) ==
    LET bank == IF address <= 49152 THEN m.bank_select_register ELSE m.prg_banks - 1
    IN 16384 * bank + (address % 16384)

\* UXROM::bank_select: value & 0x0F.
uxrom_bank_select(m, value) == [m EXCEPT !.bank_select_register = value % 16]

\* NROM's map_prg: (a - 0x8000) mod the image's PRG length.
nrom_map_prg(m, address) == (address - 32768) % (m.prg_banks * ROM_BANK_SIZE)

\* The Mapper capability's map_prg, by variant.
map_prg(m, address) ==
    IF m.kind = "UXROM" THEN uxrom_map_prg(m, address) ELSE nrom_map_prg(m, address)

\* The cartridge the Bus holds: rom_prg and rom_chr start as the image's
\* content (PrgRomByte, ChrRomByte) and keep only the bytes written since;
\* prg_size and chr_size are their lengths.
Cartridge_load(mapper, chr_banks) ==
    [rom_prg |-> <<>>, rom_chr |-> <<>>,
     prg_size |-> mapper.prg_banks * ROM_BANK_SIZE,
     chr_size |-> chr_banks * VROM_BANK_SIZE,
     mapper |-> mapper]

PrgByte(cart, i) == IF i \in DOMAIN cart.rom_prg THEN cart.rom_prg[i] ELSE PrgRomByte(i)
ChrByte(cart, i) == IF i \in DOMAIN cart.rom_chr THEN cart.rom_chr[i] ELSE ChrRomByte(i)

--------------------------------------------------------------------------
(* Joypad: joypad.rs *)

Joypad_new == [strobe_status |-> FALSE, button_status |-> 0, button_index |-> 0]

\* Joypad::read that advances the index also while the strobe is high.
joypad_read_always_advance(j) ==
    IF j.button_index > 7
    THEN [value |-> 1, joypad |-> j]
    ELSE [value |-> (j.button_status \div (2 ^ j.button_index)) % 2,
          joypad |-> [j EXCEPT !.button_index = @ + 1]]

\* Joypad::read that starts over at button A after the eighth read.
joypad_read_wrap(j) ==
    IF j.button_index > 7
    THEN [value |-> 1, joypad |-> [j EXCEPT !.button_index = 0]]
    ELSE [value |-> (j.button_status \div (2 ^ j.button_index)) % 2,
          joypad |-> IF ~j.strobe_status /\ j.button_index <= 7
                     THEN [j EXCEPT !.button_index = @ + 1]
                     ELSE j]

\* Joypad::read: the byte returned and the joypad afterwards.
joypad_read(j) ==
    IF j.button_index > 7
    THEN [value |-> 1, joypad |-> j]
    ELSE [value |-> (j.button_status \div (2 ^ j.button_index)) % 2,
          joypad |-> IF ~j.strobe_status /\ j.button_index <= 7
                     THEN [j EXCEPT !.button_index = @ + 1]
                     ELSE j]

\* Joypad::write that latches the strobe and leaves the index alone.
joypad_write_no_reset(j, value) == [j EXCEPT !.strobe_status = (value % 2 = 1)]

\* Joypad::write
joypad_write(j, value) ==
    LET strobe == value % 2 = 1
    IN [j EXCEPT !.strobe_status = strobe,
                 !.button_index = IF strobe THEN 0 ELSE @]

\* Joypad::set_pressed: button is one bit of the mask.
set_pressed(j, button, pressed) ==
    [j EXCEPT !.button_status = IF pressed THEN Insert(@, button) ELSE Remove(@, button)]

--------------------------------------------------------------------------
(* Bus: bus.rs *)

PRG_ADDRESS_SPACE_START == 32768
PRG_ADDRESS_SPACE_END == 65535

\* The 2 KiB work RAM is zero-filled at construction; only written bytes are kept.
\* Bus::new with a UxROM cartridge of two PRG banks and one CHR bank.
Bus_new ==
    [vram |-> <<>>, cycles |-> 0,
     cartridge |-> Cartridge_load(UXROM_new(2), 1),
     joypad |-> Joypad_new]

RamByte(b, i) == IF i \in DOMAIN b.vram THEN b.vram[i] ELSE 0

\* The RAM arms' index with a mask of 12 bits, one more than the RAM has.
RamIndexWide(addr) == BitAnd(addr, 4095)

\* The RAM arms of mem_read and mem_write: addr & 0b11111111111.
RamIndex(addr) == BitAnd(addr, 2047)

RamStore(b, i, value) ==
    [b EXCEPT !.vram = [a \in (DOMAIN b.vram) \cup {i} |-> IF a = i THEN value ELSE b.vram[a]]]

\* Bus::mem_write_u32: the write into rom_chr when addr <= 0x2000, then the
\* write into rom_prg; panic is an index beyond either.
mem_write_u32(b, addr, value) ==
    LET cart == b.cartridge
    IN IF (addr <= 8192 /\ addr >= cart.chr_size) \/ addr >= cart.prg_size
       THEN [bus |-> b, panic |-> TRUE]
       ELSE [bus |-> [b EXCEPT !.cartridge.rom_chr =
                                   IF addr <= 8192 THEN Store(@, addr, value) ELSE @,
                               !.cartridge.rom_prg = Store(@, addr, value)],
             panic |-> FALSE]

\* The PRG arm of Bus::mem_read; panic is an index beyond rom_prg.
prg_read(b, addr) ==
    LET cart == b.cartridge
        rom_address == map_prg(cart.mapper, addr)
        index == IF cart.prg_size = 16384 /\ rom_address >= 16384
                 THEN rom_address % 16384
                 ELSE rom_address
    IN IF index >= cart.prg_size
       THEN [value |-> 0, panic |-> TRUE]
       ELSE [value |-> PrgByte(cart, index), panic |-> FALSE]

\* Bus::tick: the Bus and PPU afterwards, whether the frame callback was
\* invoked, and what PPU::tick returned (which the Bus ignores).
BusTick(b, p, cycles) ==
    LET nmi_prior == p.nmi_interrupt # None
        t == PpuTick(p, cycles * 3)
        nmi_after == t.ppu.nmi_interrupt # None
    IN [bus |-> [b EXCEPT !.cycles = b.cycles + cycles],
        ppu |-> t.ppu,
        callback |-> ~nmi_prior /\ nmi_after,
        frame_complete |-> t.frame_complete]

\* Bus::mem_read: the arms of the work RAM, of the PPU registers $2000 to
\* $2007 and their mirrors, of the joypad, of the cartridge's PRG and of
\* the addresses that read as 0; panic is a panic of PPU::read_data or an
\* index beyond rom_prg.
RECURSIVE BusMemRead(_, _, _)
BusMemRead(b, p, addr) ==
    IF addr <= RAM_ADDRESS_SPACE_END
    THEN [value |-> RamByte(b, RamIndex(addr)), bus |-> b, ppu |-> p, panic |-> FALSE]
    ELSE IF addr \in {8192, 8193, 8195, 8197, 8198}
    THEN [value |-> 0, bus |-> b, ppu |-> p, panic |-> FALSE]
    ELSE IF addr = 8194
    THEN LET r == read_status(p) IN [value |-> r.value, bus |-> b, ppu |-> r.ppu, panic |-> FALSE]
    ELSE IF addr = 8196
    THEN [value |-> read_oam_data(p), bus |-> b, ppu |-> p, panic |-> FALSE]
    ELSE IF addr = 8199
    THEN LET r == read_data(p)
         IN [value |-> r.value, bus |-> b, ppu |-> r.ppu, panic |-> r.panic]
    ELSE IF addr >= 8200 /\ addr <= PPU_ADDRESS_SPACE_END
    THEN BusMemRead(b, p, BitAnd(addr, 8199))
    ELSE IF addr = 16406
    THEN LET r == joypad_read(b.joypad)
         IN [value |-> r.value, bus |-> [b EXCEPT !.joypad = r.joypad], ppu |-> p,
             panic |-> FALSE]
    ELSE IF addr >= PRG_ADDRESS_SPACE_START /\ addr <= PRG_ADDRESS_SPACE_END
    THEN LET r == prg_read(b, addr)
         IN [value |-> r.value, bus |-> b, ppu |-> p, panic |-> r.panic]
    ELSE [value |-> 0, bus |-> b, ppu |-> p, panic |-> FALSE]

\* One pass of the loop of the $4014 arm of Bus::mem_write:
\* buffer[i] = mem_read(hi + i), the read with its effects.
OamDmaRead(f, addr) ==
    LET Got(r) == [buffer |-> Append(f.buffer, r.value), bus |-> r.bus, ppu |-> r.ppu,
                   panic |-> r.panic]
    IN IF f.panic THEN f ELSE Got(BusMemRead(f.bus, f.ppu, addr))

\* The loop's n passes from address addr on, in order (split in halves);
\* panic is a read's panic, which ends the loop.
RECURSIVE OamDmaFill(_, _, _)
OamDmaFill(f, addr, n) ==
    IF f.panic THEN f
    ELSE IF n = 1 THEN OamDmaRead(f, addr)
    ELSE OamDmaFill(OamDmaFill(f, addr, n \div 2), addr + n \div 2, n - n \div 2)

\* The $4014 arm of Bus::mem_write.
oam_dma(b, p, value) ==
    LET Copy(f) == IF f.panic
                   THEN [bus |-> f.bus, ppu |-> f.ppu, panic |-> TRUE]
                   ELSE [bus |-> f.bus, ppu |-> write_to_oam_dma(f.ppu, f.buffer),
                         panic |-> FALSE]
    IN Copy(OamDmaFill([buffer |-> <<>>, bus |-> b, ppu |-> p, panic |-> FALSE],
                       value * 256, 256))

\* Bus::mem_write: the arms of the work RAM, of the PPU registers $2000 to
\* $2007 and their mirrors, of the joypad, of the cartridge's PRG and of
\* the addresses whose writes are ignored; panic is the write to $2002, a
\* panic of PPU::write_data, of mem_write_u32 or of a read of the OAM DMA.
RECURSIVE BusMemWrite(_, _, _, _)
BusMemWrite(b, p, addr, value) ==
    IF addr <= RAM_ADDRESS_SPACE_END
    THEN [bus |-> RamStore(b, RamIndex(addr), value), ppu |-> p, panic |-> FALSE]
    ELSE IF addr = 8192
    THEN [bus |-> b, ppu |-> write_to_reg_ctrl(p, value), panic |-> FALSE]
    ELSE IF addr = 8193
    THEN [bus |-> b, ppu |-> write_to_reg_mask(p, value), panic |-> FALSE]
    ELSE IF addr = 8194
    THEN [bus |-> b, ppu |-> p, panic |-> TRUE]
    ELSE IF addr = 8195
    THEN [bus |-> b, ppu |-> write_to_oam_address(p, value), panic |-> FALSE]
    ELSE IF addr = 8196
    THEN [bus |-> b, ppu |-> write_to_oam_data(p, value), panic |-> FALSE]
    ELSE IF addr = 8197
    THEN [bus |-> b, ppu |-> write_to_reg_scroll(p, value), panic |-> FALSE]
    ELSE IF addr = 8198
    THEN [bus |-> b, ppu |-> write_to_reg_addr(p, value), panic |-> FALSE]
    ELSE IF addr = 8199
    THEN LET w == write_data(p, value) IN [bus |-> b, ppu |-> w.ppu, panic |-> w.panic]
    ELSE IF addr >= 8200 /\ addr <= PPU_ADDRESS_SPACE_END
    THEN BusMemWrite(b, p, BitAnd(addr, 8199), value)
    ELSE IF addr = 16404
    THEN oam_dma(b, p, value)
    ELSE IF addr = 16406
    THEN [bus |-> [b EXCEPT !.joypad = joypad_write(@, value)], ppu |-> p, panic |-> FALSE]
    ELSE IF addr >= PRG_ADDRESS_SPACE_START /\ addr <= PRG_ADDRESS_SPACE_END
    THEN LET w == mem_write_u32(b, map_prg(b.cartridge.mapper, addr), value)
         IN [bus |-> w.bus, ppu |-> p, panic |-> w.panic]
    ELSE [bus |-> b, ppu |-> p, panic |-> FALSE]

--------------------------------------------------------------------------
(* CPU: cpu.rs *)

CARRY == 1
ZERO == 2
INTERRUPT_MASK == 4
DECIMAL == 8
BREAK == 16
BREAK_2 == 32
OVERFLOW == 64
NEGATIVE == 128

\* The cartridge's vectors: PRG-ROM content, an input of the model.
RESET_ENTRY == 8 * 4096
NMI_HANDLER == 9 * 4096
CartridgeWord(addr) == IF addr = 65530 THEN NMI_HANDLER ELSE RESET_ENTRY

\* CPU::new followed by CPU::reset.
CPU_reset ==
    [reg_a |-> 0, reg_x |-> 0, reg_y |-> 0, reg_sp |-> 253,
     reg_status |-> 36, reg_pc |-> CartridgeWord(65532)]

\* Memory::mem_read_u16: the low byte at addr, the high byte at addr + 1.
\* overflow: addr + 1 does not fit u16 (a panic in a debug build).
mem_read_u16(b, p, addr) ==
    LET Word(lo, hi) ==
            [value |-> hi.value * 256 + lo.value, bus |-> hi.bus, ppu |-> hi.ppu,
             overflow |-> addr = 65535]
        Hi(lo) == Word(lo, BusMemRead(lo.bus, lo.ppu, (addr + 1) % 65536))
    IN Hi(BusMemRead(b, p, addr))

\* stack_push that moves the stack pointer before the write.
stack_push_predecrement(c, b, p, value) ==
    LET sp == wrapping_sub(c.reg_sp, 1)
        w == BusMemWrite(b, p, STACK + sp, value)
    IN [cpu |-> [c EXCEPT !.reg_sp = sp], bus |-> w.bus, ppu |-> w.ppu]

stack_push(c, b, p, value) ==
    LET w == BusMemWrite(b, p, STACK + c.reg_sp, value)
    IN [cpu |-> [c EXCEPT !.reg_sp = wrapping_sub(c.reg_sp, 1)], bus |-> w.bus, ppu |-> w.ppu]

\* stack_push_u16 that pushes the low byte first.
stack_push_u16_low_first(c, b, p, value) ==
    LET PushHi(s1) == stack_push(s1.cpu, s1.bus, s1.ppu, value \div 256)
    IN PushHi(stack_push(c, b, p, value % 256))

stack_push_u16(c, b, p, value) ==
    LET PushLo(s1) == stack_push(s1.cpu, s1.bus, s1.ppu, value % 256)
    IN PushLo(stack_push(c, b, p, value \div 256))

stack_pop(c, b, p) ==
    LET sp == wrapping_add(c.reg_sp, 1)
        r == BusMemRead(b, p, STACK + sp)
    IN [value |-> r.value, cpu |-> [c EXCEPT !.reg_sp = sp], bus |-> r.bus, ppu |-> r.ppu]

\* interrupt_nmi: pushes PC and P (B clear, U set), ticks the bus by 2,
\* loads PC from the word at 0xFFFA and sets I.
interrupt_nmi(c, b, p) ==
    LET flags == Insert(Remove(c.reg_status, BREAK), BREAK_2)
        Vector(s2, t, w) ==
            [cpu |-> [s2.cpu EXCEPT !.reg_pc = w.value,
                                    !.reg_status = Insert(c.reg_status, INTERRUPT_MASK)],
             bus |-> w.bus, ppu |-> w.ppu,
             callback |-> t.callback, frame_complete |-> t.frame_complete]
        Read(s2, t) == Vector(s2, t, mem_read_u16(t.bus, t.ppu, 65530))
        Tick(s2) == Read(s2, BusTick(s2.bus, s2.ppu, NmiCycles))
        PushFlags(s1) == Tick(stack_push(s1.cpu, s1.bus, s1.ppu, flags))
    IN PushFlags(stack_push_u16(c, b, p, c.reg_pc))

php(c, b, p) ==
    stack_push(c, b, p, Insert(Insert(c.reg_status, BREAK), BREAK_2))

\* plp that loads the popped byte as it is.
plp_raw(c, b, p) ==
    LET r == stack_pop(c, b, p)
    IN [cpu |-> [r.cpu EXCEPT !.reg_status = r.value], bus |-> r.bus, ppu |-> r.ppu]

\* plp: dec_to_flags is from_bits_truncate, and all eight bits are flags.
plp(c, b, p) ==
    LET r == stack_pop(c, b, p)
    IN [cpu |-> [r.cpu EXCEPT !.reg_status = Insert(Remove(r.value, BREAK), BREAK_2)],
        bus |-> r.bus, ppu |-> r.ppu]

--------------------------------------------------------------------------
(* The step loop: CPU::execute_with_callback *)

\* The instructions of Spec, by what they do on the bus: no PPU register
\* access, a store to $2000, a load from $2002, and the two that leave the
\* loop (BRK, and an opcode with no handler). What an instruction does to
\* A, X, Y, P and PC is left out of Spec.
CtrlValues == {0, GENERATE_NMI}

PlainInstr == [kind : {"plain"}, cycles : InstrCycles, value : {0}]
WriteCtrlInstr == [kind : {"write_ctrl"}, cycles : InstrCycles, value : CtrlValues]
ReadStatusInstr == [kind : {"read_status"}, cycles : InstrCycles, value : {0}]
HaltInstr == [kind : {"halt"}, cycles : {0}, value : {0}]

\* The handler's accesses to the bus.
Execute(c, b, p, instr) ==
    IF instr.kind = "write_ctrl"
    THEN LET w == BusMemWrite(b, p, PPU_ADDRESS_SPACE_START, instr.value)
         IN [cpu |-> c, bus |-> w.bus, ppu |-> w.ppu, value |-> 0]
    ELSE IF instr.kind = "read_status"
    THEN LET r == BusMemRead(b, p, PPU_ADDRESS_SPACE_START + 2)
         IN [cpu |-> c, bus |-> r.bus, ppu |-> r.ppu, value |-> r.value]
    ELSE [cpu |-> c, bus |-> b, ppu |-> p, value |-> 0]

NoTick(c, b, p) ==
    [cpu |-> c, bus |-> b, ppu |-> p, callback |-> FALSE, frame_complete |-> FALSE]

\* The CPU is untouched by Bus::tick.
Ticked(c, bt) ==
    [cpu |-> c, bus |-> bt.bus, ppu |-> bt.ppu,
     callback |-> bt.callback, frame_complete |-> bt.frame_complete]

Count(flag) == IF flag THEN 1 ELSE 0

\* One iteration of the loop with the NMI poll moved behind the bus tick.
LoopStepPollLast(c, b, p, instr) ==
    LET Done(e, t, polled, n) ==
            [cpu |-> n.cpu, bus |-> n.bus, ppu |-> n.ppu,
             halted |-> instr.kind = "halt",
             serviced |-> polled.nmi # None,
             value |-> e.value,
             callbacks |-> Count(n.callback) + Count(t.callback),
             frames |-> Count(n.frame_complete) + Count(t.frame_complete),
             crossed |-> (p.scanline + 1 = VBLANK_SCANLINE_LIMIT
                          /\ n.ppu.scanline = VBLANK_SCANLINE_LIMIT),
             wrote01 |-> /\ instr.kind = "write_ctrl"
                         /\ ~generate_nmi(p.reg_controller)
                         /\ generate_nmi(instr.value)
                         /\ in_vblank(p.reg_status)]
        Service(e, t, polled) ==
            Done(e, t, polled, IF polled.nmi # None
                               THEN interrupt_nmi(t.cpu, t.bus, polled.ppu)
                               ELSE NoTick(t.cpu, t.bus, polled.ppu))
        Poll(e, t) == Service(e, t, poll_nmi_status(t.ppu))
        Tick(e) == Poll(e, IF instr.kind = "halt"
                           THEN NoTick(e.cpu, e.bus, e.ppu)
                           ELSE Ticked(e.cpu, BusTick(e.bus, e.ppu, instr.cycles)))
    IN Tick(Execute(c, b, p, instr))

\* One iteration of the loop: the NMI poll and service, the fetch and the
\* handler, the bus tick. halted: the loop was left (before the tick).
\* The fields from serviced on are observations of the iteration.
LoopStep(c, b, p, instr) ==
    LET Done(polled, n, e, t) ==
            [cpu |-> t.cpu, bus |-> t.bus, ppu |-> t.ppu,
             halted |-> instr.kind = "halt",
             serviced |-> polled.nmi # None,
             value |-> e.value,
             callbacks |-> Count(n.callback) + Count(t.callback),
             frames |-> Count(n.frame_complete) + Count(t.frame_complete),
             crossed |-> \/ (polled.ppu.scanline + 1 = VBLANK_SCANLINE_LIMIT
                             /\ n.ppu.scanline = VBLANK_SCANLINE_LIMIT)
                         \/ (e.ppu.scanline + 1 = VBLANK_SCANLINE_LIMIT
                             /\ t.ppu.scanline = VBLANK_SCANLINE_LIMIT),
             wrote01 |-> /\ instr.kind = "write_ctrl"
                         /\ ~generate_nmi(n.ppu.reg_controller)
                         /\ generate_nmi(instr.value)
                         /\ in_vblank(n.ppu.reg_status)]
        Tick(polled, n, e) ==
            Done(polled, n, e, IF instr.kind = "halt"
                               THEN NoTick(e.cpu, e.bus, e.ppu)
                               ELSE Ticked(e.cpu, BusTick(e.bus, e.ppu, instr.cycles)))
        Exec(polled, n) == Tick(polled, n, Execute(n.cpu, n.bus, n.ppu, instr))
        Service(polled) ==
            Exec(polled, IF polled.nmi # None
                         THEN interrupt_nmi(c, b, polled.ppu)
                         ELSE NoTick(c, b, polled.ppu))
    IN Service(poll_nmi_status(p))

\* obs in Spec: whether the last step entered NMI service, how often it invoked the frame callback, whether one of its
\* ticks moved the PPU into scanline 241, whether its $2000 write changed
\* bit 7 from 0 to 1 with STATUS.VBlank set; and, over the run, the frames
\* PPU::tick reported complete and the NMI services entered.
ObsInit ==
    [serviced |-> FALSE, callbacks |-> 0,
     crossed |-> FALSE, wrote01 |-> FALSE, frames |-> 0, services |-> 0]

Init ==
    /\ cpu = CPU_reset
    /\ bus = Bus_new
    /\ ppu = PPU_new
    /\ run = "running"
    /\ obs = ObsInit

Step(instr) ==
    /\ run = "running"
    /\ bus.cycles < MaxCycles
    /\ (ppu.nmi_interrupt # None => obs.services < MaxService)
    /\ \E r \in {LoopStep(cpu, bus, ppu, instr)} :
          /\ cpu' = r.cpu
          /\ bus' = r.bus
          /\ ppu' = r.ppu
          /\ run' = IF r.halted THEN "halted" ELSE "running"
          /\ obs' = [serviced |-> r.serviced,
                     callbacks |-> r.callbacks, crossed |-> r.crossed,
                     wrote01 |-> r.wrote01,
                     frames |-> obs.frames + r.frames,
                     services |-> obs.services + Count(r.serviced)]

StepPlain == \E i \in PlainInstr : Step(i)
StepWriteCtrl == \E i \in WriteCtrlInstr : Step(i)
StepReadStatus == \E i \in ReadStatusInstr : Step(i)
StepHalt == \E i \in HaltInstr : Step(i)

Next == StepPlain \/ StepWriteCtrl \/ StepReadStatus \/ StepHalt

Spec == Init /\ [][Next]_vars

\* PPU dots elapsed since reset.
PpuDots == obs.frames * (FRAME_SCANLINE_LIMIT * SCANLINE_PPU_CYCLE_LIMIT)
           + ppu.scanline * SCANLINE_PPU_CYCLE_LIMIT + ppu.cycles

--------------------------------------------------------------------------
(* Claims checked under Spec *)

\* C1: after any sequence of CPU steps from reset, NMI service entries
\* included, the PPU dots elapsed (completed frames x 89342 + scanline x 341
\* + dot) are exactly 3 times the Bus's CPU-cycle counter.
C1_DotsAreThreeTimesCycles == PpuDots = 3 * bus.cycles

\* C1's case: a run that has entered NMI service and completed a frame.
C1_Witness == obs.frames = 1 /\ obs.services >= 1 /\ bus.cycles > 0

\* C2: the frame callback is invoked exactly once in the step whose bus tick
\* moves the PPU into scanline 241, in every frame, whatever the PPU
\* registers hold (and in no other step).
C2_CallbackAtEveryVBlankEdge == obs.callbacks = Count(obs.crossed)

\* C4: whenever a $2000 write changes CTRL bit 7 from 0 to 1 with
\* STATUS.VBlank set, the CPU enters NMI service exactly once for it: the
\* step after the write enters the service, wherever in the vertical blank
\* the write is, and a step enters the service only for a latched NMI.
C4_LatchedNmiServicedOnce ==
    [][ /\ (obs.wrote01 => obs'.serviced)
        /\ (obs'.serviced => ppu.nmi_interrupt # None) ]_vars

\* C8: the CPU enters NMI service only at the poll point at the start of a
\* step: a step enters the service exactly when the NMI was already latched
\* when the step began, and a step that began with no NMI latched (one
\* latched by the step's own $2000 write or tick included) leaves the CPU
\* registers and the RAM, the stack with it, as the NMI service would not.
C8_NmiServicedOnlyAtPollPoint ==
    [][ /\ (obs'.serviced <=> ppu.nmi_interrupt # None)
        /\ (ppu.nmi_interrupt = None => cpu' = cpu /\ bus'.vram = bus.vram) ]_vars

\* C8's case: an NMI latched by a $2000 write in one step has been serviced
\* by a later one, after the one of the VBlank edge.
C8_Witness == obs.serviced /\ obs.services = 2 /\ cpu.reg_sp = 247

--------------------------------------------------------------------------
(* SpecFrame: PPU::tick and the NMI poll over one frame, with            *)
(* CTRL.GenerateNMI set and no further register access.                   *)

FrameDots == FRAME_SCANLINE_LIMIT * SCANLINE_PPU_CYCLE_LIMIT

\* The arguments of PPU::tick: up to 3 dots for each of 8 CPU cycles.
TickDots == 1..(3 * 8)

\* obs in SpecFrame: the dots ticked so far; how often a tick latched the
\* NMI, set STATUS.VBlank and cleared it; how often the poll returned an NMI.
InitFrame ==
    /\ cpu = CPU_reset
    /\ bus = Bus_new
    /\ ppu = write_to_reg_ctrl(PPU_new, GENERATE_NMI)
    /\ run = "running"
    /\ obs = [dots |-> 0, latched |-> 0, vblank_set |-> 0, vblank_cleared |-> 0,
              delivered |-> 0]

FrameTick ==
    \E dots \in TickDots :
        /\ obs.dots + dots <= FrameDots
        /\ \E t \in {PpuTick(ppu, dots)} :
              /\ ppu' = t.ppu
              /\ obs' = [obs EXCEPT
                     !.dots = @ + dots,
                     !.latched = @ + Count(ppu.nmi_interrupt = None /\ t.ppu.nmi_interrupt # None),
                     !.vblank_set = @ + Count(~in_vblank(ppu.reg_status) /\ in_vblank(t.ppu.reg_status)),
                     !.vblank_cleared = @ + Count(in_vblank(ppu.reg_status) /\ ~in_vblank(t.ppu.reg_status))]
        /\ UNCHANGED <<cpu, bus, run>>

FramePoll ==
    /\ ppu.nmi_interrupt # None
    /\ \E r \in {poll_nmi_status(ppu)} :
          /\ ppu' = r.ppu
          /\ obs' = [obs EXCEPT !.delivered = @ + Count(r.nmi # None)]
    /\ UNCHANGED <<cpu, bus, run>>

NextFrame == FrameTick \/ FramePoll

SpecFrame == InitFrame /\ [][NextFrame]_vars

\* C3: with CTRL.GenerateNMI set and no further $2000 write, over one full
\* frame of 89,342 dots from the start of the frame, in any split into ticks
\* of at most 24 dots, a pending NMI is latched exactly once (so at most one
\* is delivered to the CPU) and STATUS.VBlank is set exactly once and is
\* cleared again within the frame.
C3_OneNmiPerFrame ==
    /\ obs.latched <= 1 /\ obs.vblank_set <= 1 /\ obs.delivered <= obs.latched
    /\ obs.vblank_cleared <= obs.vblank_set
    /\ obs.dots = FrameDots =>
          /\ obs.latched = 1
          /\ obs.vblank_set = 1
          /\ obs.vblank_cleared = 1
          /\ ~in_vblank(ppu.reg_status)
          /\ ppu.nmi_interrupt = None

\* C3's case: the frame is over and its NMI was delivered.
C3_Witness == obs.dots = FrameDots /\ obs.delivered = 1

--------------------------------------------------------------------------
(* SpecRegs: the CPU's accesses to $2000, $2002, $2005 and $2006 (and    *)
(* their mirrors eight bytes up) and the NMI poll, from the PPU states    *)
(* of scanline 250.                                                       *)

RegValues == {18, 128, 255}

RegsStart ==
    { [PPU_new EXCEPT !.scanline = 250, !.reg_status = st, !.reg_controller = ct,
                      !.nmi_interrupt = nm] :
        st \in {0, SPRITE_ZERO_HIT, VBLANK_STARTED, VBLANK_STARTED + SPRITE_ZERO_HIT},
        ct \in {0, GENERATE_NMI},
        nm \in {None, Some(1)} }

\* obs in SpecRegs: the last operation, the byte written, the byte read,
\* the PPU before it, the writes to $2005 ("S") and $2006 ("A") since the
\* toggles were last reset (before the last operation), the operations done.
InitRegs ==
    /\ cpu = CPU_reset
    /\ bus = Bus_new
    /\ ppu \in RegsStart
    /\ run = "running"
    /\ obs = [op |-> "none", value |-> 0, result |-> 0, pre |-> PPU_new,
              since |-> <<>>, hist |-> <<>>, n |-> 0]

RegsWrite(op, reg, value) ==
    /\ obs.n < MaxOps
    /\ run = "running"
    /\ \E addr \in {reg, reg + 8} :
       \E w \in {BusMemWrite(bus, ppu, addr, value)} :
          /\ ppu' = w.ppu
          /\ bus' = w.bus
          /\ run' = IF w.panic THEN "panicked" ELSE "running"
          /\ obs' = [op |-> op, value |-> value, result |-> 0, pre |-> ppu,
                     since |-> obs.hist,
                     hist |-> IF op = "write_scroll" THEN Append(obs.hist, "S")
                              ELSE IF op = "write_addr" THEN Append(obs.hist, "A")
                              ELSE obs.hist,
                     n |-> obs.n + 1]
    /\ UNCHANGED cpu

RegsWriteCtrl == \E v \in RegValues : RegsWrite("write_ctrl", 8192, v)
RegsWriteScroll == \E v \in RegValues : RegsWrite("write_scroll", 8197, v)
RegsWriteAddr == \E v \in RegValues : RegsWrite("write_addr", 8198, v)

RegsReadStatus ==
    /\ obs.n < MaxOps
    /\ run = "running"
    /\ \E addr \in {8194, 8194 + 8} :
       \E r \in {BusMemRead(bus, ppu, addr)} :
          /\ ppu' = r.ppu
          /\ bus' = r.bus
          /\ obs' = [op |-> "read_status", value |-> 0, result |-> r.value, pre |-> ppu,
                     since |-> obs.hist, hist |-> <<>>, n |-> obs.n + 1]
    /\ UNCHANGED <<cpu, run>>

RegsPoll ==
    /\ obs.n < MaxOps
    /\ run = "running"
    /\ \E r \in {poll_nmi_status(ppu)} :
          /\ ppu' = r.ppu
          /\ obs' = [op |-> "poll", value |-> 0, result |-> Len(r.nmi), pre |-> ppu,
                     since |-> obs.hist, hist |-> obs.hist, n |-> obs.n + 1]
    /\ UNCHANGED <<cpu, bus, run>>

NextRegs == RegsWriteCtrl \/ RegsWriteScroll \/ RegsWriteAddr \/ RegsReadStatus \/ RegsPoll

SpecRegs == InitRegs /\ [][NextRegs]_vars

\* C5: a write to $2000 latches a pending NMI if and only if it changes
\* CTRL bit 7 from 0 to 1 while STATUS.VBlank is set; any other write to
\* $2000 leaves the pending-NMI latch as it was.
C5_CtrlWriteLatchesOnEdgeInVBlank ==
    obs.op = "write_ctrl" =>
        ppu.nmi_interrupt =
            IF /\ ~generate_nmi(obs.pre.reg_controller)
               /\ generate_nmi(obs.value)
               /\ in_vblank(obs.pre.reg_status)
            THEN Some(1)
            ELSE obs.pre.nmi_interrupt

\* C5's case: a $2000 write has latched an NMI that was not pending.
C5_Witness ==
    /\ obs.op = "write_ctrl"
    /\ obs.pre.nmi_interrupt = None
    /\ ppu.nmi_interrupt = Some(1)

\* C6: a read of $2002 returns the status byte as it was before the read,
\* and right after it STATUS.VBlank is clear and the write toggles of $2005
\* and $2006 are in their first-write position, whatever the state before.
C6_StatusReadClearsVBlankAndToggle ==
    obs.op = "read_status" =>
        /\ obs.result = obs.pre.reg_status
        /\ ~in_vblank(ppu.reg_status)
        /\ ppu.reg_address.first_write
        /\ ~ppu.reg_scroll.write_latch

\* C6's case: the read found VBlank set and both registers half written.
C6_Witness ==
    /\ obs.op = "read_status"
    /\ in_vblank(obs.pre.reg_status)
    /\ ~obs.pre.reg_address.first_write
    /\ obs.pre.reg_scroll.write_latch

\* C7: $2005 and $2006 share one write toggle: after one write to $2005
\* (the toggle reset before it) the next write to $2006 sets the low address
\* byte, and after one write to $2006 the next write to $2005 sets scroll-Y.
C7_SharedWriteToggle ==
    /\ (obs.op = "write_addr" /\ obs.since = <<"S">>) =>
           /\ ppu.reg_address.ll = obs.value
           /\ ppu.reg_address.hh = obs.pre.reg_address.hh
    /\ (obs.op = "write_scroll" /\ obs.since = <<"A">>) =>
           /\ ppu.reg_scroll.scy = obs.value
           /\ ppu.reg_scroll.scx = obs.pre.reg_scroll.scx

--------------------------------------------------------------------------
(* SpecStack: stack_push and stack_pop from every stack pointer.         *)

StackValues == {0, 170, 255}

\* obs in SpecStack and SpecFlags: the last operation, the byte it pushed
\* or popped, the CPU before it, the observation before this one, the
\* operations done.
ObsNone == [op |-> "none", value |-> 0, pre |-> CPU_reset]

InitStack ==
    /\ cpu \in {[CPU_reset EXCEPT !.reg_sp = s] : s \in Byte}
    /\ bus = Bus_new
    /\ ppu = PPU_new
    /\ run = "running"
    /\ obs = [last |-> ObsNone, prev |-> ObsNone, n |-> 0]

StackPush ==
    /\ obs.n < MaxOps
    /\ \E v \in StackValues :
       \E r \in {stack_push(cpu, bus, ppu, v)} :
          /\ cpu' = r.cpu
          /\ bus' = r.bus
          /\ ppu' = r.ppu
          /\ obs' = [last |-> [op |-> "push", value |-> v, pre |-> cpu],
                     prev |-> obs.last, n |-> obs.n + 1]
    /\ UNCHANGED run

StackPop ==
    /\ obs.n < MaxOps
    /\ \E r \in {stack_pop(cpu, bus, ppu)} :
          /\ cpu' = r.cpu
          /\ bus' = r.bus
          /\ ppu' = r.ppu
          /\ obs' = [last |-> [op |-> "pop", value |-> r.value, pre |-> cpu],
                     prev |-> obs.last, n |-> obs.n + 1]
    /\ UNCHANGED run

NextStack == StackPush \/ StackPop

SpecStack == InitStack /\ [][NextStack]_vars

\* C9: for every stack pointer s in 0x00..0xFF and byte v, a push of v
\* writes v at address 0x0100|s and sets SP to s-1 (8-bit wrap), and the pop
\* that follows returns v and restores SP to s, also across the wrap between
\* 0x00 and 0xFF.
C9_PushPopRoundTrip ==
    /\ obs.last.op = "push" =>
          /\ BusMemRead(bus, ppu, STACK + obs.last.pre.reg_sp).value = obs.last.value
          /\ cpu.reg_sp = (obs.last.pre.reg_sp + 255) % 256
    /\ (obs.last.op = "pop" /\ obs.prev.op = "push") =>
          /\ obs.last.value = obs.prev.value
          /\ cpu.reg_sp = obs.prev.pre.reg_sp

\* C9's case: a push at SP = 0x00 wrapped to 0xFF and the pop came back.
C9_Witness ==
    /\ obs.last.op = "pop" /\ obs.prev.op = "push"
    /\ obs.prev.pre.reg_sp = 0 /\ obs.last.pre.reg_sp = 255
    /\ obs.last.value = 170

--------------------------------------------------------------------------
(* SpecFlags: PHP and PLP from every status byte.                         *)

FlagsSp == {0, 253, 255}

InitFlags ==
    /\ cpu \in {[CPU_reset EXCEPT !.reg_status = f, !.reg_sp = s] : f \in Byte, s \in FlagsSp}
    /\ bus = Bus_new
    /\ ppu = PPU_new
    /\ run = "running"
    /\ obs = [last |-> ObsNone, prev |-> ObsNone, n |-> 0]

FlagsPhp ==
    /\ obs.n < MaxOps
    /\ \E r \in {php(cpu, bus, ppu)} :
          /\ cpu' = r.cpu
          /\ bus' = r.bus
          /\ ppu' = r.ppu
          /\ obs' = [last |-> [op |-> "php",
                               value |-> BusMemRead(r.bus, r.ppu, STACK + cpu.reg_sp).value,
                               pre |-> cpu],
                     prev |-> obs.last, n |-> obs.n + 1]
    /\ UNCHANGED run

FlagsPlp ==
    /\ obs.n < MaxOps
    /\ \E r \in {plp(cpu, bus, ppu)} :
          /\ cpu' = r.cpu
          /\ bus' = r.bus
          /\ ppu' = r.ppu
          /\ obs' = [last |-> [op |-> "plp", value |-> r.cpu.reg_status, pre |-> cpu],
                     prev |-> obs.last, n |-> obs.n + 1]
    /\ UNCHANGED run

NextFlags == FlagsPhp \/ FlagsPlp

SpecFlags == InitFlags /\ [][NextFlags]_vars

\* The bits C, Z, I, D, V, N of a status byte: all but B and U.
Czidvn(f) == f - (IF Contains(f, BREAK) THEN BREAK ELSE 0)
               - (IF Contains(f, BREAK_2) THEN BREAK_2 ELSE 0)

\* C10: for every status byte P, PHP pushes P with B and U forced to 1, and
\* PHP followed by PLP leaves C, Z, I, D, V, N as they were before the PHP,
\* with B = 0 and U = 1 afterwards and SP restored.
C10_PhpPlpRoundTrip ==
    /\ obs.last.op = "php" =>
          /\ obs.last.value = Czidvn(obs.last.pre.reg_status) + BREAK + BREAK_2
          /\ cpu.reg_status = obs.last.pre.reg_status
    /\ (obs.last.op = "plp" /\ obs.prev.op = "php") =>
          /\ Czidvn(cpu.reg_status) = Czidvn(obs.prev.pre.reg_status)
          /\ ~Contains(cpu.reg_status, BREAK)
          /\ Contains(cpu.reg_status, BREAK_2)
          /\ cpu.reg_sp = obs.prev.pre.reg_sp

\* C10's case: PHP then PLP from P = 0xC3 (U clear) gives 0xE3.
C10_Witness ==
    /\ obs.last.op = "plp" /\ obs.prev.op = "php"
    /\ obs.prev.pre.reg_status = 195
    /\ cpu.reg_status = 227

--------------------------------------------------------------------------
(* SpecJmp: one iteration of the step loop that fetches JMP indirect     *)
(* (0x6C) from the work RAM.                                              *)

\* CPU::jmp (JMP indirect): c.reg_pc is at the operand.
jmp(c, b, p) ==
    LET Jump(pc, r) == [cpu |-> [c EXCEPT !.reg_pc = pc], bus |-> r.bus, ppu |-> r.ppu]
        PageHi(lo, hi) == Jump(hi.value * 256 + lo.value, hi)
        PageLo(a, lo) == PageHi(lo, BusMemRead(lo.bus, lo.ppu, a.value - (a.value % 256)))
        Plain(w) == Jump(w.value, w)
        Target(a) == IF a.value % 256 = 255
                     THEN PageLo(a, BusMemRead(a.bus, a.ppu, a.value))
                     ELSE Plain(mem_read_u16(a.bus, a.ppu, a.value))
    IN Target(mem_read_u16(b, p, c.reg_pc))

\* The opcode table's entry of 0x6C: JMP, length 3, 5 cycles.
JMP_IND == [instruction |-> 108, length |-> 3, cycles |-> 5]

\* The loop's iteration for an opcode 0x6C at c.reg_pc with no NMI pending:
\* the fetch, reg_pc += 1, the snapshot, the handler, the bus tick, and the
\* advance by length - 1 when reg_pc equals the snapshot.
StepJmpIndirect(c, b, p) ==
    LET pc_snapshot == (c.reg_pc + 1) % 65536
        Advance(j, t) ==
            [cpu |-> IF pc_snapshot = j.cpu.reg_pc
                     THEN [j.cpu EXCEPT !.reg_pc = (@ + JMP_IND.length - 1) % 65536]
                     ELSE j.cpu,
             bus |-> t.bus, ppu |-> t.ppu]
        Tick(j) == Advance(j, BusTick(j.bus, j.ppu, JMP_IND.cycles))
        Handler(f) == Tick(jmp([c EXCEPT !.reg_pc = pc_snapshot], f.bus, f.ppu))
    IN Handler(BusMemRead(b, p, c.reg_pc))

\* Where the instruction is, the pointers it names and the bytes in memory.
JmpPc == 512
JmpPointers == {16, 255, 767, 768, 2047}
JmpBytes == {1, 2, 128}

\* The work RAM with the byte wrap at the start of the pointer's page, the
\* word hi:lo at the pointer and the instruction 6C lo(ptr) hi(ptr) at JmpPc.
JmpMemory(ptr, lo, hi, wrap) ==
    LET m1 == BusMemWrite(Bus_new, PPU_new, ptr - (ptr % 256), wrap).bus
        m2 == BusMemWrite(m1, PPU_new, ptr + 1, hi).bus
        m3 == BusMemWrite(m2, PPU_new, ptr, lo).bus
        m4 == BusMemWrite(m3, PPU_new, JmpPc, JMP_IND.instruction).bus
        m5 == BusMemWrite(m4, PPU_new, JmpPc + 1, ptr % 256).bus
    IN BusMemWrite(m5, PPU_new, JmpPc + 2, ptr \div 256).bus

\* obs in SpecJmp: the last operation, the CPU before it and the pointer.
InitJmp ==
    /\ cpu = [CPU_reset EXCEPT !.reg_pc = JmpPc]
    /\ \E ptr \in JmpPointers, lo \in JmpBytes, hi \in JmpBytes, wrap \in JmpBytes :
          /\ bus = JmpMemory(ptr, lo, hi, wrap)
          /\ obs = [op |-> "none", pre |-> CPU_reset, ptr |-> ptr]
    /\ ppu = PPU_new
    /\ run = "running"

JmpStep ==
    /\ obs.op = "none"
    /\ BusMemRead(bus, ppu, cpu.reg_pc).value = JMP_IND.instruction
    /\ \E r \in {StepJmpIndirect(cpu, bus, ppu)} :
          /\ cpu' = r.cpu
          /\ bus' = r.bus
          /\ ppu' = r.ppu
          /\ obs' = [obs EXCEPT !.op = "jmp", !.pre = cpu]
    /\ UNCHANGED run

NextJmp == JmpStep

SpecJmp == InitJmp /\ [][NextJmp]_vars

\* The byte of the work RAM an address in 0x0000..0x1FFF names.
JmpByteAt(addr) == RamByte(bus, addr % 2048)

\* C11: after JMP indirect with a pointer $xxFF the PC's low byte is the
\* byte at $xxFF and its high byte the byte at $xx00 (not at $(xx+1)00);
\* with any other pointer the PC is the little-endian word at pointer and
\* pointer + 1.
C11_JmpIndirectTarget ==
    obs.op = "jmp" =>
        cpu.reg_pc =
            IF obs.ptr % 256 = 255
            THEN JmpByteAt(obs.ptr) + 256 * JmpByteAt(obs.ptr - 255)
            ELSE JmpByteAt(obs.ptr) + 256 * JmpByteAt(obs.ptr + 1)

--------------------------------------------------------------------------
(* SpecRam: CPU writes to the work RAM's address range, and to PPU       *)
(* registers in between.                                                  *)

\* Addresses of the four copies of a few RAM bytes, and two PPU registers.
RamAddrs == {0, 1, 2047, 2048, 2049, 4095, 4096, 4097, 6143, 6144, 6145, 8191}
OtherAddrs == {8193, 8195}
RamValues == {0, 90, 255}

\* obs in SpecRam: the last write's address and byte, the writes done.
InitRam ==
    /\ cpu = CPU_reset
    /\ bus = Bus_new
    /\ ppu = PPU_new
    /\ run = "running"
    /\ obs = [op |-> "none", addr |-> 0, value |-> 0, n |-> 0]

RamWriteTo(addrs, op) ==
    /\ obs.n < MaxOps
    /\ \E a \in addrs, v \in RamValues :
       \E w \in {BusMemWrite(bus, ppu, a, v)} :
          /\ bus' = w.bus
          /\ ppu' = w.ppu
          /\ obs' = [op |-> op, addr |-> a, value |-> v, n |-> obs.n + 1]
    /\ UNCHANGED <<cpu, run>>

RamWrite == RamWriteTo(RamAddrs, "write_ram")
RamWriteOther == RamWriteTo(OtherAddrs, "write_other")

NextRam == RamWrite \/ RamWriteOther

SpecRam == InitRam /\ [][NextRam]_vars

\* C12: a write of v to an address a in 0x0000..0x1FFF followed by a read
\* of a returns v, and after any sequence of bus writes the reads of
\* a & 0x07FF and of the same plus 0x0800, 0x1000 and 0x1800 return the
\* same byte.
C12_RamMirrors ==
    /\ obs.op = "write_ram" => BusMemRead(bus, ppu, obs.addr).value = obs.value
    /\ \A a \in RamAddrs :
       \A k \in 1..3 :
          BusMemRead(bus, ppu, (a % 2048) + k * 2048).value
              = BusMemRead(bus, ppu, a % 2048).value

\* C12's case: a byte written through the last copy is read at its first
\* address, after a write to a PPU register.
C12_Witness ==
    /\ obs.op = "write_other"
    /\ BusMemRead(bus, ppu, 1).value = 90
    /\ BusMemRead(bus, ppu, 6145).value = 90
    /\ DOMAIN bus.vram = {1}

--------------------------------------------------------------------------
(* SpecData: the CPU's accesses to PPU memory through $2006 and $2007.   *)

\* VRAM addresses: pattern table, nametables, the range 0x3000..0x3EFF,
\* the palette's eight paired addresses and one beyond the 32 entries.
PaletteLow == {16128, 16132, 16136, 16140}
PaletteHigh == {16144, 16148, 16152, 16156}
DataAddrs == {0, 8192, 12032, 12288, 16160} \cup PaletteLow \cup PaletteHigh
DataValues == {85, 170}

\* obs in SpecData: the last operation, the byte written, the byte read,
\* the PPU before it, the operations done.
InitData ==
    /\ cpu = CPU_reset
    /\ bus = Bus_new
    /\ ppu \in {[PPU_new EXCEPT !.mirroring = m] : m \in {"Horizontal", "Vertical"}}
    /\ run = "running"
    /\ obs = [op |-> "none", value |-> 0, result |-> 0, pre |-> PPU_new, n |-> 0]

\* Two writes to $2006: the high byte, then the low byte.
SetVramAddress(b, p, addr) ==
    LET Lo(w) == BusMemWrite(w.bus, w.ppu, 8198, addr % 256)
    IN Lo(BusMemWrite(b, p, 8198, addr \div 256))

DataSetAddr ==
    /\ obs.n < MaxDataOps
    /\ run = "running"
    /\ ppu.reg_address.first_write
    /\ \E addr \in DataAddrs :
       \E w \in {SetVramAddress(bus, ppu, addr)} :
          /\ bus' = w.bus
          /\ ppu' = w.ppu
          /\ obs' = [op |-> "set_addr", value |-> 0, result |-> 0, pre |-> ppu, n |-> obs.n + 1]
    /\ UNCHANGED <<cpu, run>>

DataWrite ==
    /\ obs.n < MaxDataOps
    /\ run = "running"
    /\ \E v \in DataValues :
       \E w \in {BusMemWrite(bus, ppu, 8199, v)} :
          /\ bus' = w.bus
          /\ ppu' = w.ppu
          /\ run' = IF w.panic THEN "panicked" ELSE "running"
          /\ obs' = [op |-> "write", value |-> v, result |-> 0, pre |-> ppu, n |-> obs.n + 1]
    /\ UNCHANGED cpu

DataRead ==
    /\ obs.n < MaxDataOps
    /\ run = "running"
    /\ \E r \in {BusMemRead(bus, ppu, 8199)} :
          /\ bus' = r.bus
          /\ ppu' = r.ppu
          /\ run' = IF r.panic THEN "panicked" ELSE "running"
          /\ obs' = [op |-> "read", value |-> 0, result |-> r.value, pre |-> ppu, n |-> obs.n + 1]
    /\ UNCHANGED cpu

NextData == DataSetAddr \/ DataWrite \/ DataRead

SpecData == InitData /\ [][NextData]_vars

\* What a $2007 read returns after $2006 is set to addr, from state p.
ReadBackAt(p, addr) ==
    LET Read(w) == BusMemRead(w.bus, w.ppu, 8199).value
    IN Read(SetVramAddress(Bus_new, p, addr))

\* C13: through $2006/$2007, a palette write to 0x3F10, 0x3F14, 0x3F18 or
\* 0x3F1C is read back at 0x3F00, 0x3F04, 0x3F08 or 0x3F0C, a write to the
\* latter is read back at the former, and the two addresses of each pair
\* always return the same byte.
C13_PaletteMirrorPairs ==
    /\ (obs.op = "write" /\ addr_get(obs.pre.reg_address) \in PaletteHigh) =>
           ReadBackAt(ppu, addr_get(obs.pre.reg_address) - 16) = obs.value
    /\ (obs.op = "write" /\ addr_get(obs.pre.reg_address) \in PaletteLow) =>
           ReadBackAt(ppu, addr_get(obs.pre.reg_address) + 16) = obs.value
    /\ ppu.reg_address.first_write =>
           \A a \in PaletteLow : ReadBackAt(ppu, a) = ReadBackAt(ppu, a + 16)

\* C13's case: a byte written at 0x3F14 is read at 0x3F04, and differs from
\* the one of the pair of 0x3F10.
C13_Witness ==
    /\ obs.op = "write"
    /\ addr_get(obs.pre.reg_address) = 16148
    /\ ReadBackAt(ppu, 16132) = 85
    /\ ReadBackAt(ppu, 16128) = 170

\* The nametable byte at the mirror of a VRAM address, and the byte a
\* VRAM address below 0x3F00 names.
NametableByteAt(p, addr) == VramByte(p, mirror_vram(p.mirroring, BitAnd(addr, 12287)))
AddressedByteAt(p, addr) == IF addr <= 8191 THEN ChrRomByte(addr) ELSE NametableByteAt(p, addr)

\* The palette entry of an address in 0x3F00..0x3FFF.
PaletteByteAt(p, addr) ==
    LET entry == (addr - 16128) % 32
    IN PaletteByte(p, IF entry \in {16, 20, 24, 28} THEN entry - 16 ELSE entry)

\* C14: a $2007 read with the VRAM address in 0x3F00..0x3FFF returns the
\* palette byte at once and refills the read buffer from the nametable byte
\* at the mirrored address (which a following read below the palette then
\* returns); a read with the address below 0x3F00 returns the buffer's
\* previous content and refills the buffer from the addressed byte.
C14_DataReadBuffer ==
    obs.op = "read" =>
        LET addr == addr_get(obs.pre.reg_address)
        IN IF addr >= 16128
           THEN /\ run = "running"
                /\ obs.result = PaletteByteAt(obs.pre, addr)
                /\ ppu.internal_data_buffer = NametableByteAt(obs.pre, addr)
           ELSE /\ run = "running"
                /\ obs.result = obs.pre.internal_data_buffer
                /\ ppu.internal_data_buffer = AddressedByteAt(obs.pre, addr)

--------------------------------------------------------------------------
(* CPU writes and reads in the cartridge's PRG range, 0x8000-0xFFFF  *)

PrgAddrs == {32768, 32769, 40960, 49151, 49152, 65535}
PrgValues == {0, 90}
PrgMappers == {UXROM_new(2), UXROM_new(4), NROM_new(1), NROM_new(2)}

InitPrg ==
    /\ cpu = CPU_reset
    /\ \E m \in PrgMappers : bus = [Bus_new EXCEPT !.cartridge = Cartridge_load(m, 1)]
    /\ ppu = PPU_new
    /\ run = "running"
    /\ obs = [op |-> "none", addr |-> 0, value |-> 0, result |-> 0, pre |-> Bus_new, n |-> 0]

PrgWrite ==
    /\ obs.n < MaxOps
    /\ run = "running"
    /\ \E a \in PrgAddrs, v \in PrgValues :
       \E w \in {BusMemWrite(bus, ppu, a, v)} :
          /\ bus' = w.bus
          /\ ppu' = w.ppu
          /\ run' = IF w.panic THEN "panicked" ELSE "running"
          /\ obs' = [op |-> "write", addr |-> a, value |-> v, result |-> 0, pre |-> bus,
                     n |-> obs.n + 1]
    /\ UNCHANGED cpu

PrgRead ==
    /\ obs.n < MaxOps
    /\ run = "running"
    /\ \E a \in PrgAddrs :
       \E r \in {BusMemRead(bus, ppu, a)} :
          /\ bus' = r.bus
          /\ ppu' = r.ppu
          /\ run' = IF r.panic THEN "panicked" ELSE "running"
          /\ obs' = [op |-> "read", addr |-> a, value |-> 0, result |-> r.value, pre |-> bus,
                     n |-> obs.n + 1]
    /\ UNCHANGED cpu

NextPrg == PrgWrite \/ PrgRead

SpecPrg == InitPrg /\ [][NextPrg]_vars

\* The index into rom_prg that a read of addr selects.
PrgIndex(cart, addr) ==
    LET rom_address == map_prg(cart.mapper, addr)
    IN IF cart.prg_size = 16384 /\ rom_address >= 16384
       THEN rom_address % 16384
       ELSE rom_address

\* C15: a CPU write to an address in 0x8000-0xFFFF leaves the cartridge's PRG
\* and CHR contents as loaded from the image (and an NROM mapper as it was),
\* and a read of a PRG address returns the image's byte at the index the
\* mapper selects.
C15_PrgWritesKeepRom ==
    /\ run = "running"
    /\ bus.cartridge.rom_prg = <<>>
    /\ bus.cartridge.rom_chr = <<>>
    /\ obs.op = "write" /\ bus.cartridge.mapper.kind = "NROM"
          => bus.cartridge.mapper = obs.pre.cartridge.mapper
    /\ obs.op = "read" => obs.result = PrgRomByte(PrgIndex(obs.pre.cartridge, obs.addr))

--------------------------------------------------------------------------
(* The UxROM mapper: bank_select and map_prg  *)

MapperBanks == {1, 2, 8, 16}
MapperAddrs == {32768, 40960, 49151, 49152, 49153, 57344, 65535}
MapperValues == {0, 1, 7, 15, 16, 130, 255}

InitMapper ==
    /\ cpu = CPU_reset
    /\ \E n \in MapperBanks :
          bus = [Bus_new EXCEPT !.cartridge = Cartridge_load(UXROM_new(n), 1)]
    /\ ppu = PPU_new
    /\ run = "running"
    /\ obs = [op |-> "none", arg |-> 0, result |-> 0, pre |-> UXROM_new(1)]

MapperBankSelect ==
    /\ \E v \in MapperValues :
          /\ bus' = [bus EXCEPT !.cartridge.mapper = uxrom_bank_select(@, v)]
          /\ obs' = [op |-> "bank_select", arg |-> v, result |-> 0,
                     pre |-> bus.cartridge.mapper]
    /\ UNCHANGED <<cpu, ppu, run>>

MapperMapPrg ==
    /\ \E a \in MapperAddrs :
          obs' = [op |-> "map_prg", arg |-> a,
                  result |-> map_prg(bus.cartridge.mapper, a),
                  pre |-> bus.cartridge.mapper]
    /\ UNCHANGED <<cpu, bus, ppu, run>>

NextMapper == MapperBankSelect \/ MapperMapPrg

SpecMapper == InitMapper /\ [][NextMapper]_vars

\* C16: UxROM maps a PRG address a to 0x4000 * bank + (a & 0x3FFF), where
\* bank is the bank register for a < 0xC000 and the last bank otherwise
\* (a = 0xC000 included), and bank_select(v) stores v & 0x0F.
C16_UxromMapping ==
    /\ obs.op = "map_prg" =>
          obs.result = 16384 * (IF obs.arg < 49152
                                THEN obs.pre.bank_select_register
                                ELSE obs.pre.prg_banks - 1)
                       + BitAnd(obs.arg, 16383)
    /\ obs.op = "bank_select" =>
          /\ bus.cartridge.mapper.bank_select_register = BitAnd(obs.arg, 15)
          /\ bus.cartridge.mapper.prg_banks = obs.pre.prg_banks

--------------------------------------------------------------------------
(* The iNES parser: cartridge.rs, ROM::new  *)

NES_IDENTIFIER_TAG == <<78, 69, 83, 26>>

\* A byte buffer: its length and its first eight bytes, head[i + 1] being
\* binary[i] for i < len. The bytes after the header are not interpreted.
Binary(len, head) == [len |-> len, head |-> head]

\* binary[0..4] != NES_IDENTIFIER_TAG, for a buffer of at least 4 bytes.
TagDiffers(binary) == \E i \in 1..4 : binary.head[i] # NES_IDENTIFIER_TAG[i]

\* ROM::new: kind is "Ok" with the ROM, "Err" with the message, or "panic"
\* for an index or a slice beyond the buffer.
ROM_new(binary) ==
    IF binary.len < 8
    THEN [kind |-> "panic"]
    ELSE LET control_byte_one == binary.head[7]
             control_byte_two == binary.head[8]
             mapper == BitAnd(control_byte_two, 240) + control_byte_one \div 16
             rom_prg_size == binary.head[5] * ROM_BANK_SIZE
             rom_chr_size == binary.head[6] * VROM_BANK_SIZE
             is_trainer == BitAnd(control_byte_one, 4) # 0
             rom_prg_start == 16 + (IF is_trainer THEN 512 ELSE 0)
             rom_chr_start == rom_prg_start + rom_prg_size
             mirroring_plane == BitAnd(control_byte_one, 1) # 0
             mirroring_four_screen == BitAnd(control_byte_one, 8) # 0
             mirroring == IF mirroring_four_screen THEN "FourScreen"
                          ELSE IF mirroring_plane THEN "Vertical"
                          ELSE "Horizontal"
         IN IF TagDiffers(binary)
            THEN [kind |-> "Err", message |-> "File is in incorrect format"]
            ELSE IF rom_prg_start + rom_prg_size > binary.len
                    \/ rom_chr_start + rom_chr_size > binary.len
            THEN [kind |-> "panic"]
            ELSE [kind |-> "Ok",
                  rom_prg |-> [start |-> rom_prg_start, size |-> rom_prg_size],
                  rom_chr |-> [start |-> rom_chr_start, size |-> rom_chr_size],
                  rom_mapper |-> mapper,
                  mirroring_type |-> mirroring]

\* main: the file's bytes are parsed and the result unwrapped.
MainLoad(binary) ==
    LET r == ROM_new(binary)
    IN IF r.kind = "Ok" THEN "running" ELSE "panicked"

RomTags == {NES_IDENTIFIER_TAG, <<77, 69, 83, 26>>, <<78, 69, 83, 0>>}
RomPrgPages == {0, 1, 2}
RomChrPages == {0, 1}
RomControlOne == {0, 1, 4, 8, 16, 32, 37}
RomControlTwo == {0, 16}
RomHeads ==
    {t \o <<p, c, one, two>> :
        t \in RomTags, p \in RomPrgPages, c \in RomChrPages,
        one \in RomControlOne, two \in RomControlTwo}

\* The length of the image that a header describes.
ImageLength(head) ==
    16 + (IF BitAnd(head[7], 4) # 0 THEN 512 ELSE 0)
       + head[5] * ROM_BANK_SIZE + head[6] * VROM_BANK_SIZE

RomLengths(head) ==
    {0, 3, 4, 7, 8, 16, ImageLength(head) - 1, ImageLength(head), ImageLength(head) + 1}

InitRom ==
    /\ cpu = CPU_reset
    /\ bus = Bus_new
    /\ ppu = PPU_new
    /\ run = "loading"
    /\ obs = [op |-> "none", binary |-> Binary(0, NES_IDENTIFIER_TAG \o <<0, 0, 0, 0>>),
              result |-> [kind |-> "none"]]

RomLoad ==
    /\ run = "loading"
    /\ \E head \in RomHeads :
       \E len \in RomLengths(head) :
       \E binary \in {Binary(len, head)} :
          /\ obs' = [op |-> "load", binary |-> binary, result |-> ROM_new(binary)]
          /\ run' = MainLoad(binary)
    /\ UNCHANGED <<cpu, bus, ppu>>

NextRom == RomLoad

SpecRom == InitRom /\ [][NextRom]_vars

\* The first four bytes of the buffer are the iNES magic.
HasMagic(binary) ==
    binary.len >= 4 /\ \A i \in 1..4 : binary.head[i] = NES_IDENTIFIER_TAG[i]

\* C17: for a buffer of any length whose first four bytes are not
\* 0x4E 0x45 0x53 0x1A, the parser returns the format error: no cartridge,
\* no crash.
C17_BadMagicIsFormatError ==
    obs.op = "load" /\ ~HasMagic(obs.binary)
       => obs.result.kind = "Err" /\ obs.result.message = "File is in incorrect format"

\* The mapper id of the header: high nibble of byte 7, low nibble from byte 6.
MapperId(binary) == (binary.head[8] \div 16) * 16 + binary.head[7] \div 16

\* The buffer is shorter than the image its header describes.
Truncated(binary) == binary.len < 16 \/ binary.len < ImageLength(binary.head)

\* C18: an image with the magic that is truncated, or whose mapper id is
\* neither 0 nor 2, yields a load error: no cartridge, no crash.
C18_TruncatedOrUnsupportedIsError ==
    obs.op = "load" /\ HasMagic(obs.binary)
                    /\ (Truncated(obs.binary) \/ MapperId(obs.binary) \notin {0, 2})
       => obs.result.kind = "Err"

--------------------------------------------------------------------------
(* The controller port $4016  *)

\* JoypadButton, from the least significant bit: A, B, SELECT, START, UP,
\* DOWN, LEFT, RIGHT.
JoypadButton == <<1, 2, 4, 8, 16, 32, 64, 128>>

StrobeValues == {0, 1, 2, 3, 255}

\* obs.k counts the reads since the last write that raised or dropped the
\* strobe (9 stands for more than eight); obs.armed says that the strobe was
\* written high and then low; obs.reset_from is the index that the last
\* write of a high strobe found.
InitJoypad ==
    /\ cpu = CPU_reset
    /\ bus = Bus_new
    /\ ppu = PPU_new
    /\ run = "running"
    /\ obs = [op |-> "none", value |-> 0, result |-> 0, pre |-> Joypad_new,
              k |-> 0, armed |-> FALSE, reset_from |-> 0]

JoypadStrobe ==
    /\ \E v \in StrobeValues :
       \E w \in {BusMemWrite(bus, ppu, 16406, v)} :
          /\ bus' = w.bus
          /\ ppu' = w.ppu
          /\ obs' = [obs EXCEPT
                       !.op = "write", !.value = v, !.result = 0, !.pre = bus.joypad,
                       !.k = IF w.bus.joypad.strobe_status \/ bus.joypad.strobe_status
                             THEN 0 ELSE @,
                       !.armed = IF w.bus.joypad.strobe_status THEN FALSE
                                 ELSE IF bus.joypad.strobe_status THEN TRUE ELSE @,
                       !.reset_from = IF w.bus.joypad.strobe_status
                                      THEN bus.joypad.button_index ELSE @]
    /\ UNCHANGED <<cpu, run>>

JoypadRead ==
    /\ \E r \in {BusMemRead(bus, ppu, 16406)} :
          /\ bus' = r.bus
          /\ ppu' = r.ppu
          /\ obs' = [obs EXCEPT
                       !.op = "read", !.value = 0, !.result = r.value, !.pre = bus.joypad,
                       !.k = IF @ < 9 THEN @ + 1 ELSE 9]
    /\ UNCHANGED <<cpu, run>>

\* The frame callback's key events: Joypad::set_pressed.
JoypadSetPressed ==
    /\ \E i \in 1..8, pressed \in BOOLEAN :
          /\ bus' = [bus EXCEPT !.joypad = set_pressed(@, JoypadButton[i], pressed)]
          /\ obs' = [obs EXCEPT !.op = "set_pressed", !.value = 0, !.result = 0,
                                !.pre = Joypad_new]
    /\ UNCHANGED <<cpu, ppu, run>>

NextJoypad == JoypadStrobe \/ JoypadRead \/ JoypadSetPressed

SpecJoypad == InitJoypad /\ [][NextJoypad]_vars

\* The pressed state, 0 or 1, of a button in a joypad.
Pressed(j, button) == IF Contains(j.button_status, button) THEN 1 ELSE 0

\* C19: after the strobe is written high and then low, the k-th of the
\* next eight reads of $4016 returns the pressed state of the k-th button
\* of A, B, Select, Start, Up, Down, Left, Right, and advances the read
\* index from k - 1 to k.
C19_EightReadsInOrder ==
    obs.op = "read" /\ obs.armed /\ obs.k \in 1..8
       => /\ obs.result = Pressed(obs.pre, JoypadButton[obs.k])
          /\ obs.pre.button_index = obs.k - 1
          /\ bus.joypad.button_index = obs.k

\* The eighth read after the strobe fell returned a pressed RIGHT, with A
\* released.
C19_Witness ==
    /\ obs.op = "read" /\ obs.armed /\ obs.k = 8
    /\ obs.result = 1
    /\ ~Contains(obs.pre.button_status, 1)
    /\ bus.joypad.button_index = 8

\* C20: a write to $4016 with bit 0 set resets the read index to 0 from any
\* index, and a read while the strobe is high returns the state of button
\* A and leaves the index at 0.
C20_StrobeHighHoldsIndex ==
    /\ obs.op = "write" /\ obs.value % 2 = 1
          => bus.joypad.button_index = 0 /\ bus.joypad.strobe_status
    /\ obs.op = "read" /\ obs.pre.strobe_status
          => /\ obs.result = Pressed(obs.pre, JoypadButton[1])
             /\ bus.joypad.button_index = 0
             /\ bus.joypad.strobe_status

\* More than eight consecutive reads under a high strobe that found the
\* index at 8, the last one returning a pressed A.
C20_Witness ==
    /\ obs.op = "read" /\ obs.pre.strobe_status
    /\ obs.k = 9
    /\ obs.reset_from = 8
    /\ obs.result = 1

--------------------------------------------------------------------------
(* ADC and SBC: cpu.rs, add_to_a  *)

\* CPU::handle_flags_z_n
handle_flags_z_n(c, value) ==
    LET z == IF value = 0 THEN Insert(c.reg_status, ZERO) ELSE Remove(c.reg_status, ZERO)
    IN [c EXCEPT !.reg_status = IF Contains(value, 128) THEN Insert(z, NEGATIVE)
                                ELSE Remove(z, NEGATIVE)]

\* CPU::add_to_a without the carry-in.
add_to_a_no_carry_in(c, value) ==
    LET sum == c.reg_a + value
        eval == sum % 256
    IN handle_flags_z_n([c EXCEPT !.reg_a = eval,
                                  !.reg_status = IF sum > 255 THEN Insert(@, CARRY)
                                                 ELSE Remove(@, CARRY)], eval)

\* CPU::add_to_a that takes the unsigned carry-out for the overflow.
add_to_a_unsigned_overflow(c, value) ==
    LET carry == IF Contains(c.reg_status, CARRY) THEN 1 ELSE 0
        sum == c.reg_a + value + carry
        eval == sum % 256
        flags == IF sum > 255 THEN Insert(Insert(c.reg_status, CARRY), OVERFLOW)
                 ELSE Remove(Remove(c.reg_status, CARRY), OVERFLOW)
    IN handle_flags_z_n([c EXCEPT !.reg_a = eval, !.reg_status = flags], eval)

\* CPU::add_to_a; (value ^ eval) & (eval ^ reg_a) & 0x80 compares the bits 7.
add_to_a(c, value) ==
    LET carry == IF Contains(c.reg_status, CARRY) THEN 1 ELSE 0
        sum == c.reg_a + value + carry
        eval == sum % 256
        with_carry == IF sum > 255 THEN Insert(c.reg_status, CARRY)
                      ELSE Remove(c.reg_status, CARRY)
        with_overflow ==
            IF Contains(value, 128) # Contains(eval, 128)
               /\ Contains(eval, 128) # Contains(c.reg_a, 128)
            THEN Insert(with_carry, OVERFLOW)
            ELSE Remove(with_carry, OVERFLOW)
    IN handle_flags_z_n([c EXCEPT !.reg_a = eval, !.reg_status = with_overflow], eval)

\* i8::wrapping_neg, on the byte that holds the i8.
wrapping_neg(v) == (256 - v) % 256

\* CPU::adc with the immediate addressing mode: the operand is at reg_pc.
adc(c, b, p) ==
    LET r == BusMemRead(b, p, c.reg_pc)
    IN [cpu |-> add_to_a(c, r.value), bus |-> r.bus, ppu |-> r.ppu]

\* CPU::sbc with the immediate addressing mode.
sbc(c, b, p) ==
    LET r == BusMemRead(b, p, c.reg_pc)
    IN [cpu |-> add_to_a(c, wrapping_sub(wrapping_neg(r.value), 1)),
        bus |-> r.bus, ppu |-> r.ppu]

\* CPU::sec and CPU::clc
sec(c) == [c EXCEPT !.reg_status = Insert(@, CARRY)]
clc(c) == [c EXCEPT !.reg_status = Remove(@, CARRY)]

\* The accumulator a, the operand b in RAM at reg_pc and the carry c.
InitArith ==
    \E a \in Byte, b \in Byte, carry \in {0, 1} :
       /\ cpu = [CPU_reset EXCEPT !.reg_pc = JmpPc, !.reg_a = a,
                                  !.reg_status = IF carry = 1 THEN Insert(@, CARRY) ELSE @]
       /\ bus = RamStore(Bus_new, JmpPc, b)
       /\ ppu = PPU_new
       /\ run = "start"
       /\ obs = [a |-> a, b |-> b, c |-> carry, sbc_carry |-> 0]

ArithAdc ==
    /\ run = "start"
    /\ \E r \in {adc(cpu, bus, ppu)} :
          /\ cpu' = r.cpu
          /\ bus' = r.bus
          /\ ppu' = r.ppu
    /\ run' = "added"
    /\ UNCHANGED obs

ArithSec ==
    /\ run = "added"
    /\ cpu' = sec(cpu)
    /\ run' = "carried"
    /\ obs' = [obs EXCEPT !.sbc_carry = 1]
    /\ UNCHANGED <<bus, ppu>>

ArithClc ==
    /\ run = "added"
    /\ cpu' = clc(cpu)
    /\ run' = "carried"
    /\ obs' = [obs EXCEPT !.sbc_carry = 0]
    /\ UNCHANGED <<bus, ppu>>

ArithSbc ==
    /\ run = "carried"
    /\ \E r \in {sbc(cpu, bus, ppu)} :
          /\ cpu' = r.cpu
          /\ bus' = r.bus
          /\ ppu' = r.ppu
    /\ run' = "subtracted"
    /\ UNCHANGED obs

NextArith == ArithAdc \/ ArithSec \/ ArithClc \/ ArithSbc

SpecArith == InitArith /\ [][NextArith]_vars

\* C21: for all bytes a, b and carry c, ADC of b into the accumulator a with
\* carry-in c, followed by SBC of b whose borrow matches c (the carry flag
\* is the complement of c), leaves the accumulator equal to a.
C21_AdcThenSbc ==
    run = "subtracted" /\ obs.sbc_carry = 1 - obs.c => cpu.reg_a = obs.a

\* The sum wrapped past 0xFF and the subtraction came back: 200 + 100 + 1.
C21_Witness ==
    /\ run = "subtracted"
    /\ obs.a = 200 /\ obs.b = 100 /\ obs.c = 1 /\ obs.sbc_carry = 0
    /\ cpu.reg_a = 200

\* C22: a CPU write to $2007 completes without a fatal error for every VRAM
\* address that $2006 can select, 0x3000-0x3EFF and the palette mirrors
\* 0x3F20-0x3FFF included.
C22_DataWriteNeverFatal ==
    obs.op = "write" => run = "running"

--------------------------------------------------------------------------
(* The step loop on opcodes in memory: opcodes.rs, cpu.rs  *)

Opcode(instruction, mnemonic, length, cycles) ==
    [instruction |-> instruction, mnemonic |-> mnemonic, length |-> length, cycles |-> cycles]

\* OPCODES_JMP_TABLE, for the opcodes whose handlers are modelled here and
\* for the opcodes that the loop's match has no arm for. (The table has an
\* entry for each of the 256 bytes.)
OPCODES_JMP_TABLE ==
    0 :> Opcode(0, "BRK", 1, 7) @@
    2 :> Opcode(2, "JAM", 1, 0) @@
    11 :> Opcode(11, "ANC", 2, 2) @@
    18 :> Opcode(18, "JAM", 1, 0) @@
    24 :> Opcode(24, "CLC", 1, 2) @@
    32 :> Opcode(32, "JSR", 3, 6) @@
    34 :> Opcode(34, "JAM", 1, 0) @@
    43 :> Opcode(43, "ANC", 2, 2) @@
    50 :> Opcode(50, "JAM", 1, 0) @@
    56 :> Opcode(56, "SEC", 1, 2) @@
    66 :> Opcode(66, "JAM", 1, 0) @@
    75 :> Opcode(75, "ASR", 2, 2) @@
    76 :> Opcode(76, "JMP", 3, 3) @@
    82 :> Opcode(82, "JAM", 1, 0) @@
    98 :> Opcode(98, "JAM", 1, 0) @@
    105 :> Opcode(105, "ADC", 2, 5) @@
    107 :> Opcode(107, "ARR", 2, 2) @@
    114 :> Opcode(114, "JAM", 1, 0) @@
    136 :> Opcode(136, "DEY", 1, 2) @@
    139 :> Opcode(139, "XAA", 2, 2) @@
    144 :> Opcode(144, "BCC", 2, 4) @@
    146 :> Opcode(146, "JAM", 1, 0) @@
    147 :> Opcode(147, "SHA", 2, 6) @@
    155 :> Opcode(155, "SHS", 3, 5) @@
    156 :> Opcode(156, "SHY", 3, 5) @@
    158 :> Opcode(158, "SHX", 3, 5) @@
    159 :> Opcode(159, "SHA", 3, 5) @@
    162 :> Opcode(162, "LDX", 2, 2) @@
    176 :> Opcode(176, "BCS", 2, 4) @@
    178 :> Opcode(178, "JAM", 1, 0) @@
    187 :> Opcode(187, "LAS", 3, 5) @@
    202 :> Opcode(202, "DEX", 1, 2) @@
    203 :> Opcode(203, "SBX", 2, 2) @@
    208 :> Opcode(208, "BNE", 2, 4) @@
    210 :> Opcode(210, "JAM", 1, 0) @@
    233 :> Opcode(233, "SBC", 2, 2) @@
    234 :> Opcode(234, "NOP", 1, 2) @@
    240 :> Opcode(240, "BEQ", 2, 4) @@
    242 :> Opcode(242, "JAM", 1, 0)

\* The opcodes that fall into the `_` arm of the loop's match.
NoArmOpcodes == {2, 11, 18, 34, 43, 50, 66, 75, 82, 98, 107, 114, 139, 146, 147, 155, 156, 158, 159, 178, 187, 203, 210, 242}

\* CPU::ldx with the immediate addressing mode.
ldx(c, b, p) ==
    LET r == BusMemRead(b, p, c.reg_pc)
    IN [cpu |-> handle_flags_z_n([c EXCEPT !.reg_x = r.value], r.value),
        bus |-> r.bus, ppu |-> r.ppu]

dex(c) == handle_flags_z_n([c EXCEPT !.reg_x = wrapping_sub(@, 1)], wrapping_sub(c.reg_x, 1))
dey(c) == handle_flags_z_n([c EXCEPT !.reg_y = wrapping_sub(@, 1)], wrapping_sub(c.reg_y, 1))

\* `as i8` then `as u16`: the sign-extended offset.
SignExtend(byte) == IF byte >= 128 THEN byte + 65280 ELSE byte

\* CPU::branch: c.reg_pc is at the operand.
branch(c, b, p, flag_set) ==
    IF flag_set
    THEN LET r == BusMemRead(b, p, c.reg_pc)
         IN [cpu |-> [c EXCEPT !.reg_pc = (c.reg_pc + 1 + SignExtend(r.value)) % 65536],
             bus |-> r.bus, ppu |-> r.ppu]
    ELSE [cpu |-> c, bus |-> b, ppu |-> p]

bcc(c, b, p) == branch(c, b, p, ~Contains(c.reg_status, CARRY))
bcs(c, b, p) == branch(c, b, p, Contains(c.reg_status, CARRY))
beq(c, b, p) == branch(c, b, p, Contains(c.reg_status, ZERO))
bne(c, b, p) == branch(c, b, p, ~Contains(c.reg_status, ZERO))

\* The arm of 0x4C, JMP absolute.
jmp_abs(c, b, p) ==
    LET r == mem_read_u16(b, p, c.reg_pc)
    IN [cpu |-> [c EXCEPT !.reg_pc = r.value], bus |-> r.bus, ppu |-> r.ppu]

\* CPU::jsr
jsr(c, b, p) ==
    LET Target(s, r) == [cpu |-> [s.cpu EXCEPT !.reg_pc = r.value], bus |-> r.bus, ppu |-> r.ppu]
        Read(s) == Target(s, mem_read_u16(s.bus, s.ppu, s.cpu.reg_pc))
    IN Read(stack_push_u16(c, b, p, (c.reg_pc + 1) % 65536))

\* The loop's match left only by BRK.
LeavesOnBrkOnly(opcode) == IF opcode = 0 THEN "break" ELSE "none"

\* The loop's match left only by the `_` arm.
LeavesOnNoArmOnly(opcode) == IF opcode \in NoArmOpcodes THEN "return" ELSE "none"

\* How the loop's match leaves the loop: the break after brk(), the return
\* of the `_` arm.
Leaves(opcode) ==
    IF opcode = 0 THEN "break"
    ELSE IF opcode \in NoArmOpcodes THEN "return"
    ELSE "none"

\* The loop's match on the opcode, c.reg_pc being behind the opcode. brk()
\* is empty, and the `_` arm calls no handler.
Dispatch(opcode, c, b, p) ==
    CASE opcode = 162 -> ldx(c, b, p)
      [] opcode = 202 -> [cpu |-> dex(c), bus |-> b, ppu |-> p]
      [] opcode = 136 -> [cpu |-> dey(c), bus |-> b, ppu |-> p]
      [] opcode = 234 -> [cpu |-> c, bus |-> b, ppu |-> p]
      [] opcode = 24 -> [cpu |-> clc(c), bus |-> b, ppu |-> p]
      [] opcode = 56 -> [cpu |-> sec(c), bus |-> b, ppu |-> p]
      [] opcode = 105 -> adc(c, b, p)
      [] opcode = 233 -> sbc(c, b, p)
      [] opcode = 76 -> jmp_abs(c, b, p)
      [] opcode = 32 -> jsr(c, b, p)
      [] opcode = 144 -> bcc(c, b, p)
      [] opcode = 176 -> bcs(c, b, p)
      [] opcode = 240 -> beq(c, b, p)
      [] opcode = 208 -> bne(c, b, p)
      [] opcode = 0 \/ opcode \in NoArmOpcodes -> [cpu |-> c, bus |-> b, ppu |-> p]

\* One iteration of the loop of execute_with_callback: the NMI poll and
\* service, the callback, the fetch, reg_pc += 1, the snapshot, the match,
\* and, unless the match left the loop, the bus tick and the advance by
\* length - 1 when reg_pc equals the snapshot. seen is the CPU handed to the
\* callback, opcode the byte fetched, left how the loop was left.
LoopIteration(c, b, p) ==
    LET Done(n, f, h, t) ==
            [cpu |-> IF Leaves(f.value) = "none" /\ h.cpu.reg_pc = (n.cpu.reg_pc + 1) % 65536
                     THEN [h.cpu EXCEPT !.reg_pc =
                              (@ + OPCODES_JMP_TABLE[f.value].length - 1) % 65536]
                     ELSE h.cpu,
             bus |-> t.bus, ppu |-> t.ppu,
             seen |-> n.cpu, opcode |-> f.value, left |-> Leaves(f.value)]
        Tick(n, f, h) ==
            Done(n, f, h, IF Leaves(f.value) = "none"
                          THEN Ticked(h.cpu, BusTick(h.bus, h.ppu, OPCODES_JMP_TABLE[f.value].cycles))
                          ELSE NoTick(h.cpu, h.bus, h.ppu))
        Match(n, f) ==
            Tick(n, f, Dispatch(f.value, [n.cpu EXCEPT !.reg_pc = (@ + 1) % 65536],
                                f.bus, f.ppu))
        Fetch(n) == Match(n, BusMemRead(n.bus, n.ppu, n.cpu.reg_pc))
        Service(polled) ==
            Fetch(IF polled.nmi # None
                  THEN interrupt_nmi(c, b, polled.ppu)
                  ELSE NoTick(c, b, polled.ppu))
    IN Service(poll_nmi_status(p))

--------------------------------------------------------------------------
(* Programs in RAM that run up to BRK or to an opcode without an arm  *)

\* Where the program starts, and the registers A, X, Y there.
ProgramStart == 100

\* The instructions of the programs: LDX #0, LDX #1, DEX, DEY, NOP, SEC, BRK
\* and the opcodes without an arm.
ProgramInstrs ==
    {<<162, 0>>, <<162, 1>>, <<202>>, <<136>>, <<234>>, <<56>>, <<0>>}
        \cup {<<op>> : op \in NoArmOpcodes}

\* The work RAM with the bytes of code from address at on.
RECURSIVE LoadBytes(_, _, _)
LoadBytes(b, at, code) ==
    IF code = <<>> THEN b
    ELSE LoadBytes(RamStore(b, at, Head(code)), at + 1, Tail(code))

\* Two instructions and a closing BRK.
InitLoop ==
    /\ cpu = [CPU_reset EXCEPT !.reg_pc = ProgramStart, !.reg_a = 1, !.reg_x = 2, !.reg_y = 3]
    /\ ppu = PPU_new
    /\ run = "running"
    /\ \E i1 \in ProgramInstrs, i2 \in ProgramInstrs :
          /\ bus = LoadBytes(Bus_new, ProgramStart, i1 \o i2 \o <<0>>)
          /\ obs = [program |-> <<i1, i2, <<0>>>>, trace |-> <<>>, seen |-> CPU_reset,
                    opcode |-> 0, pre |-> CPU_reset, pre_cycles |-> 0, pre_ppu |-> PPU_new]

\* One iteration of the loop; the callback appends the PC it sees to trace.
LoopIterate ==
    /\ run = "running"
    /\ \E r \in {LoopIteration(cpu, bus, ppu)} :
          /\ cpu' = r.cpu
          /\ bus' = r.bus
          /\ ppu' = r.ppu
          /\ run' = IF r.left = "none" THEN "running" ELSE r.left
          /\ obs' = [obs EXCEPT !.trace = Append(@, r.seen.reg_pc), !.seen = r.seen,
                                !.opcode = r.opcode, !.pre = cpu,
                                !.pre_cycles = bus.cycles, !.pre_ppu = ppu]

NextLoop == LoopIterate

SpecLoop == InitLoop /\ [][NextLoop]_vars

\* The addresses of the first n instructions of a program.
RECURSIVE InstrAddrs(_, _, _)
InstrAddrs(program, at, n) ==
    IF n = 0 THEN <<>>
    ELSE <<at>> \o InstrAddrs(Tail(program), at + Len(Head(program)), n - 1)

\* C23: the loop ends when it executes BRK, and up to there the callback has
\* run once per executed instruction, the BRK included, before the fetch:
\* it has seen the PC at each opcode in turn and the registers and flags as
\* the previous instruction left them.
C23_CallbackPerInstruction ==
    /\ Len(obs.trace) <= Len(obs.program)
    /\ obs.trace = InstrAddrs(obs.program, ProgramStart, Len(obs.trace))
    /\ Len(obs.trace) > 0 =>
          /\ obs.seen = obs.pre
          /\ obs.opcode = obs.program[Len(obs.trace)][1]
          /\ (obs.opcode = 0) = (run = "break")
    /\ run = "break" => ~ENABLED NextLoop

\* LDX #1, DEX, BRK: the third callback saw X = 0 with the Z flag, and the
\* loop ended.
C23_Witness ==
    /\ run = "break"
    /\ obs.program = <<<<162, 1>>, <<202>>, <<0>>>>
    /\ obs.trace = <<100, 102, 103>>
    /\ obs.seen.reg_x = 0
    /\ obs.seen.reg_status = 38

\* C24: fetching an opcode that the loop's match has no arm for ends the
\* loop: no bus tick follows the fetch and no further instruction is
\* executed.
C24_NoArmHalts ==
    Len(obs.trace) > 0 /\ obs.opcode \in NoArmOpcodes
       => /\ run = "return"
          /\ bus.cycles = obs.pre_cycles
          /\ ppu = obs.pre_ppu
          /\ ~ENABLED NextLoop

\* SEC, then 0x9B (SHS, in the opcode table, without an arm): the loop ended
\* at the second fetch, two CPU cycles after the start.
C24_Witness ==
    /\ run = "return"
    /\ obs.program = <<<<56>>, <<155>>, <<0>>>>
    /\ obs.trace = <<100, 101>>
    /\ bus.cycles = 2

--------------------------------------------------------------------------
(* Bus::tick and PPU::tick over whole frames, sprite 0 on scanline 0 or 250 *)

\* The frames ticked through.
MaxFrames == 2

\* The arguments of Bus::tick: the cycles of an instruction or of the NMI
\* service, up to 8, that is up to 24 dots.
TickCycles == 1..8

SpriteZeroLines == {0, 250}

\* The PPU after writes to $2000, $2001, $2003 and $2004: CTRL, sprites
\* shown, and the Y of sprite 0.
InitTick ==
    /\ cpu = CPU_reset
    /\ bus = Bus_new
    /\ \E ctrl \in CtrlValues, y \in SpriteZeroLines :
          ppu = write_to_oam_data(
                    write_to_oam_address(
                        write_to_reg_mask(write_to_reg_ctrl(PPU_new, ctrl), SHOW_SPRITES), 0), y)
    /\ run = "running"
    /\ obs = [op |-> "none", dots |-> 0, frames |-> 0, frame_complete |-> FALSE,
              pre_scanline |-> 0, pre_status |-> 0, pre_nmi |-> None]

\* obs: the dots ticked and the ticks that returned true so far; of the last
\* operation, what the tick returned and the scanline, the status and the
\* latch before it.
TickBus ==
    /\ obs.frames < MaxFrames
    /\ \E cycles \in TickCycles :
       \E t \in {BusTick(bus, ppu, cycles)} :
          /\ bus' = t.bus
          /\ ppu' = t.ppu
          /\ obs' = [op |-> "tick", dots |-> obs.dots + 3 * cycles,
                     frames |-> obs.frames + Count(t.frame_complete),
                     frame_complete |-> t.frame_complete,
                     pre_scanline |-> ppu.scanline, pre_status |-> ppu.reg_status,
                     pre_nmi |-> ppu.nmi_interrupt]
    /\ UNCHANGED <<cpu, run>>

\* Bus::poll_nmi_status, when the latch is set.
TickPoll ==
    /\ ppu.nmi_interrupt # None
    /\ ppu' = poll_nmi_status(ppu).ppu
    /\ obs' = [obs EXCEPT !.op = "poll", !.frame_complete = FALSE,
                          !.pre_scanline = ppu.scanline, !.pre_status = ppu.reg_status,
                          !.pre_nmi = ppu.nmi_interrupt]
    /\ UNCHANGED <<cpu, bus, run>>

NextTick == TickBus \/ TickPoll

SpecTick == InitTick /\ [][NextTick]_vars

\* C25: after every PPU tick reachable through the Bus, of at most 24 dots,
\* the dot counter is in 0..340 and the scanline counter in 0..261.
C25_CountersInRange ==
    /\ ppu.cycles \in 0..(SCANLINE_PPU_CYCLE_LIMIT - 1)
    /\ ppu.scanline \in 0..(FRAME_SCANLINE_LIMIT - 1)

\* The last dot of the last scanline, in the second frame.
C25_Witness ==
    /\ obs.op = "tick" /\ obs.frames = 1
    /\ ppu.scanline = FRAME_SCANLINE_LIMIT - 1
    /\ ppu.cycles = SCANLINE_PPU_CYCLE_LIMIT - 1

\* The last tick moved the PPU into scanline 241.
EnteredVblank ==
    /\ obs.op = "tick"
    /\ obs.pre_scanline = VBLANK_SCANLINE_LIMIT - 1
    /\ ppu.scanline = VBLANK_SCANLINE_LIMIT

\* C26: no dots are lost at the boundaries of scanlines and frames: after n
\* dots in ticks of any sizes the PPU has completed floor(n / 89342) frames
\* and stands n mod 89342 dots into the frame, so that every VBlank start
\* falls less than one tick after dot 241 * 341 of its frame and two
\* consecutive ones are 89342 dots apart up to the size of a tick.
C26_NoDotsLost ==
    /\ obs.frames = obs.dots \div FrameDots
    /\ ppu.scanline * SCANLINE_PPU_CYCLE_LIMIT + ppu.cycles = obs.dots % FrameDots
    /\ EnteredVblank =>
          (obs.dots % FrameDots) - VBLANK_SCANLINE_LIMIT * SCANLINE_PPU_CYCLE_LIMIT
              \in 0..(3 * 8 - 1)

\* The VBlank start of the second frame.
C26_Witness == EnteredVblank /\ obs.frames = 1

C28_FrameEnd ==
    obs.op = "tick" =>
       /\ obs.frame_complete =
             (obs.pre_scanline = FRAME_SCANLINE_LIMIT - 1 /\ ppu.scanline # obs.pre_scanline)
       /\ obs.frame_complete =>
             /\ ppu.scanline = 0
             /\ ~in_vblank(ppu.reg_status)
             /\ ~Contains(ppu.reg_status, SPRITE_ZERO_HIT)
             /\ ppu.nmi_interrupt = None

\* The end of a frame with an NMI pending and the sprite-zero hit of
\* scanline 250 in the status before the tick.
C28_Witness ==
    /\ obs.op = "tick" /\ obs.frame_complete
    /\ obs.pre_nmi # None
    /\ Contains(obs.pre_status, SPRITE_ZERO_HIT)
    /\ in_vblank(obs.pre_status)

--------------------------------------------------------------------------
(* The NMI service from a latched NMI  *)

NmiPcs == {100, 511, 33023, 65535}
NmiStatuses == {0, 36, 52, 195, 255}
NmiSps == {0, 1, 2, 128, 253, 255}
NmiBanks == {1, 2, 4}

\* Where in the vertical blank the PPU stands: scanline and dot.
NmiPositions == {<<241, 3>>, <<250, 100>>, <<261, 338>>}

InitNmi ==
    /\ \E pc \in NmiPcs, st \in NmiStatuses, sp \in NmiSps :
          cpu = [reg_a |-> 17, reg_x |-> 34, reg_y |-> 51, reg_sp |-> sp,
                 reg_status |-> st, reg_pc |-> pc]
    /\ \E n \in NmiBanks : bus = [Bus_new EXCEPT !.cartridge = Cartridge_load(UXROM_new(n), 1)]
    /\ \E pos \in NmiPositions :
          ppu = [PPU_new EXCEPT !.reg_controller = GENERATE_NMI,
                                !.reg_status = VBLANK_STARTED,
                                !.scanline = pos[1], !.cycles = pos[2],
                                !.nmi_interrupt = Some(1)]
    /\ run = "running"
    /\ obs = [op |-> "none", pre |-> CPU_reset, pre_cycles |-> 0, pre_dots |-> 0]

\* The head of the loop's iteration: the poll and, for a latched NMI, the
\* service.
NmiPollAndService ==
    /\ run = "running"
    /\ \E polled \in {poll_nmi_status(ppu)} :
          /\ polled.nmi # None
          /\ \E r \in {interrupt_nmi(cpu, bus, polled.ppu)} :
                /\ cpu' = r.cpu
                /\ bus' = r.bus
                /\ ppu' = r.ppu
    /\ run' = "serviced"
    /\ obs' = [op |-> "nmi", pre |-> cpu, pre_cycles |-> bus.cycles,
               pre_dots |-> ppu.scanline * SCANLINE_PPU_CYCLE_LIMIT + ppu.cycles]

NextNmi == NmiPollAndService

SpecNmi == InitNmi /\ [][NextNmi]_vars

\* The byte of the loaded image that the CPU address 0xFFFA + i names: the
\* last 16 KiB bank, offset 0x3FFA + i.
VectorByte(i) == PrgRomByte(bus.cartridge.prg_size - 6 + i)

\* C29: NMI service, entered with program counter pc, status p and stack
\* pointer s, writes pc's high byte at 0x0100|s, pc's low byte at
\* 0x0100|(s-1) and p with B clear and U set at 0x0100|(s-2), leaves
\* SP = s-3 (8-bit wrap), advances the bus by 2 CPU cycles (6 dots), sets I,
\* leaves the NMI latch clear and PC at the little-endian word at 0xFFFA;
\* A, X and Y are unchanged.
C29_NmiService ==
    obs.op = "nmi" =>
       /\ RamByte(bus, STACK + obs.pre.reg_sp) = obs.pre.reg_pc \div 256
       /\ RamByte(bus, STACK + ((obs.pre.reg_sp + 255) % 256)) = obs.pre.reg_pc % 256
       /\ RamByte(bus, STACK + ((obs.pre.reg_sp + 254) % 256))
             = BitAnd(obs.pre.reg_status, 255 - BREAK) + (BREAK_2 - BitAnd(obs.pre.reg_status, BREAK_2))
       /\ cpu.reg_sp = (obs.pre.reg_sp + 253) % 256
       /\ bus.cycles = obs.pre_cycles + 2
       /\ (ppu.scanline * SCANLINE_PPU_CYCLE_LIMIT + ppu.cycles)
             = (obs.pre_dots + 6) % FrameDots
       /\ cpu.reg_status = obs.pre.reg_status + (INTERRUPT_MASK - BitAnd(obs.pre.reg_status, INTERRUPT_MASK))
       /\ ppu.nmi_interrupt = None
       /\ cpu.reg_pc = VectorByte(1) * 256 + VectorByte(0)
       /\ cpu.reg_a = obs.pre.reg_a /\ cpu.reg_x = obs.pre.reg_x /\ cpu.reg_y = obs.pre.reg_y

\* The service entered at PC $80FF with SP = $01 and B set in P: the pushes
\* wrapped from $0100 to $01FF.
C29_Witness ==
    /\ obs.op = "nmi"
    /\ obs.pre.reg_pc = 33023 /\ obs.pre.reg_sp = 1 /\ obs.pre.reg_status = 255
    /\ RamByte(bus, 257) = 128 /\ RamByte(bus, 256) = 255 /\ RamByte(bus, 511) = 239
    /\ cpu.reg_sp = 254

--------------------------------------------------------------------------
(* One step of the loop on a branch, a jump, a call or a plain instruction *)

TransferPcs == {0, 512}
TransferStatuses == {36, 37, 38, 39}
BranchOpcodes == {144, 176, 240, 208}
BranchOffsets == {0, 1, 127, 128, 254, 255}
PlainCode == {<<234>>, <<56>>, <<202>>, <<162, 0>>, <<162, 255>>}

\* The targets of JMP absolute and JSR from an instruction at at: itself, its
\* operand, the byte behind it, and two further addresses in the work RAM.
JumpTargets(at) == {at, at + 1, at + 3, 768, 2047}

\* The instructions that an instruction at address at can be.
TransferCode(at) ==
    {<<op, o>> : op \in BranchOpcodes, o \in BranchOffsets}
        \cup {<<op, t % 256, t \div 256>> : op \in {76, 32}, t \in JumpTargets(at)}
        \cup PlainCode

InitTransfer ==
    /\ ppu = PPU_new
    /\ run = "running"
    /\ \E at \in TransferPcs, st \in TransferStatuses :
       \E code \in TransferCode(at) :
          /\ cpu = [CPU_reset EXCEPT !.reg_pc = at, !.reg_status = st]
          /\ bus = LoadBytes(Bus_new, at, code)
          /\ obs = [code |-> code, at |-> at, pre |-> CPU_reset]

TransferStep ==
    /\ run = "running"
    /\ \E r \in {LoopIteration(cpu, bus, ppu)} :
          /\ cpu' = r.cpu
          /\ bus' = r.bus
          /\ ppu' = r.ppu
    /\ run' = "stepped"
    /\ obs' = [obs EXCEPT !.pre = cpu]

NextTransfer == TransferStep

SpecTransfer == InitTransfer /\ [][NextTransfer]_vars

\* Whether the branch opcode is taken under the status p.
Taken(opcode, p) ==
    CASE opcode = 144 -> ~Contains(p, CARRY)
      [] opcode = 176 -> Contains(p, CARRY)
      [] opcode = 240 -> Contains(p, ZERO)
      [] opcode = 208 -> ~Contains(p, ZERO)
      [] OTHER -> FALSE

\* Where the step of the instruction obs.code at obs.at is to leave PC.
TransferTarget ==
    LET code == obs.code
    IN IF code[1] \in BranchOpcodes /\ Taken(code[1], obs.pre.reg_status)
       THEN (obs.at + 2 + (IF code[2] >= 128 THEN code[2] - 256 ELSE code[2]) + 65536) % 65536
       ELSE IF code[1] \in {76, 32}
       THEN code[2] + 256 * code[3]
       ELSE obs.at + Len(code)

\* C30: after a step that executes a control transfer PC is the target, for
\* every target: the byte after the operand plus the signed offset for a
\* taken branch (16-bit wrap), the operand for JMP absolute and JSR; after
\* a step of any other instruction of length L fetched at p, a branch not
\* taken included, PC = p + L.
C30_TransferTarget ==
    run = "stepped" => cpu.reg_pc = TransferTarget

--------------------------------------------------------------------------
(* Register transfers and PLA *)

tax(c) == handle_flags_z_n([c EXCEPT !.reg_x = c.reg_a], c.reg_a)

tay(c) == handle_flags_z_n([c EXCEPT !.reg_y = c.reg_a], c.reg_a)

tsx(c) == handle_flags_z_n([c EXCEPT !.reg_x = c.reg_sp], c.reg_sp)

txa(c) == handle_flags_z_n([c EXCEPT !.reg_a = c.reg_x], c.reg_x)

txs(c) == [c EXCEPT !.reg_sp = c.reg_x]

\* CPU::tya: the copy alone, the flags are left as they are.
tya(c) == [c EXCEPT !.reg_a = c.reg_y]

pla(c, b, p) ==
    LET Flags(r) == [cpu |-> handle_flags_z_n([r.cpu EXCEPT !.reg_a = r.value], r.value),
                     bus |-> r.bus, ppu |-> r.ppu]
    IN Flags(stack_pop(c, b, p))

XferValues == {0, 1, 127, 128, 255}
XferSps == {0, 128, 253, 255}
XferStatuses == {36, 38, 164, 166}

InitXfer ==
    \E a \in XferValues, x \in XferValues, y \in XferValues,
       sp \in XferSps, st \in XferStatuses, top \in XferValues :
       /\ cpu = [CPU_reset EXCEPT !.reg_a = a, !.reg_x = x, !.reg_y = y,
                                  !.reg_sp = sp, !.reg_status = st]
       /\ bus = RamStore(Bus_new, STACK + wrapping_add(sp, 1), top)
       /\ ppu = PPU_new
       /\ run = "running"
       /\ obs = [op |-> "none", pre |-> CPU_reset, top |-> top]

XferRegister(op, after) ==
    /\ run = "running"
    /\ cpu' = after
    /\ run' = "done"
    /\ obs' = [obs EXCEPT !.op = op, !.pre = cpu]
    /\ UNCHANGED <<bus, ppu>>

XferTax == XferRegister("tax", tax(cpu))

XferTay == XferRegister("tay", tay(cpu))

XferTsx == XferRegister("tsx", tsx(cpu))

XferTxa == XferRegister("txa", txa(cpu))

XferTxs == XferRegister("txs", txs(cpu))

XferTya == XferRegister("tya", tya(cpu))

XferPla ==
    /\ run = "running"
    /\ \E r \in {pla(cpu, bus, ppu)} :
          /\ cpu' = r.cpu
          /\ bus' = r.bus
          /\ ppu' = r.ppu
    /\ run' = "done"
    /\ obs' = [obs EXCEPT !.op = "pla", !.pre = cpu]

NextXfer ==
    \/ XferTax
    \/ XferTay
    \/ XferTsx
    \/ XferTxa
    \/ XferTxs
    \/ XferTya
    \/ XferPla

SpecXfer == InitXfer /\ [][NextXfer]_vars

\* Z is (value = 0) and N is bit 7 of value in the status st.
ZnReflect(st, value) ==
    /\ Contains(st, ZERO) <=> value = 0
    /\ Contains(st, NEGATIVE) <=> value >= 128

\* The source's value before the transfer obs.op and the destination's after.
XferSource ==
    CASE obs.op \in {"tax", "tay"} -> obs.pre.reg_a
      [] obs.op \in {"txa", "txs"} -> obs.pre.reg_x
      [] obs.op = "tsx" -> obs.pre.reg_sp
      [] obs.op = "tya" -> obs.pre.reg_y
      [] obs.op = "pla" -> obs.top

XferDestination ==
    CASE obs.op \in {"tax", "tsx"} -> cpu.reg_x
      [] obs.op = "tay" -> cpu.reg_y
      [] obs.op \in {"txa", "tya", "pla"} -> cpu.reg_a
      [] obs.op = "txs" -> cpu.reg_sp

\* C31: TAX, TAY, TSX, TXA, TYA and PLA copy their source to their
\* destination and set Z to (value = 0) and N to bit 7 of the value, for
\* every byte; TXS copies X to SP and changes no flag.
C31_TransfersSetFlags ==
    run = "done" =>
        /\ XferDestination = XferSource
        /\ IF obs.op = "txs"
           THEN cpu.reg_status = obs.pre.reg_status
           ELSE ZnReflect(cpu.reg_status, XferSource)

--------------------------------------------------------------------------
(* ADC and SBC on every accumulator, operand and carry *)

InitAddSub ==
    \E a \in Byte, m \in Byte, carry \in {0, 1} :
       /\ cpu = [CPU_reset EXCEPT !.reg_pc = JmpPc, !.reg_a = a,
                                  !.reg_status = IF carry = 1 THEN Insert(@, CARRY) ELSE @]
       /\ bus = RamStore(Bus_new, JmpPc, m)
       /\ ppu = PPU_new
       /\ run = "start"
       /\ obs = [a |-> a, m |-> m, c |-> carry]

AddSubAdc ==
    /\ run = "start"
    /\ \E r \in {adc(cpu, bus, ppu)} :
          /\ cpu' = r.cpu
          /\ bus' = r.bus
          /\ ppu' = r.ppu
    /\ run' = "adc"
    /\ UNCHANGED obs

AddSubSbc ==
    /\ run = "start"
    /\ \E r \in {sbc(cpu, bus, ppu)} :
          /\ cpu' = r.cpu
          /\ bus' = r.bus
          /\ ppu' = r.ppu
    /\ run' = "sbc"
    /\ UNCHANGED obs

NextAddSub ==
    \/ AddSubAdc
    \/ AddSubSbc

SpecAddSub == InitAddSub /\ [][NextAddSub]_vars

\* The second addend: M for ADC, its complement for SBC.
Addend == IF run = "sbc" THEN 255 - obs.m ELSE obs.m

\* C32: for all bytes A, M and carry-in C, ADC leaves A' = (A + M + C) mod
\* 256 and C' = (A + M + C > 255), SBC leaves A' = (A + (255 - M) + C) mod
\* 256 and C' the carry-out of that sum; V is set iff the two addends have
\* the same sign and A' has the other sign; Z and N reflect A'.
C32_AdcSbcResultAndFlags ==
    run \in {"adc", "sbc"} =>
        LET sum == obs.a + Addend + obs.c
        IN /\ cpu.reg_a = sum % 256
           /\ Contains(cpu.reg_status, CARRY) <=> sum > 255
           /\ Contains(cpu.reg_status, OVERFLOW) <=>
                  /\ (obs.a >= 128) = (Addend >= 128)
                  /\ (cpu.reg_a >= 128) # (obs.a >= 128)
           /\ ZnReflect(cpu.reg_status, cpu.reg_a)

\* SBC of 1 from 0x80 with the carry set: 0x7F, carry out and overflow.
C32_Witness ==
    /\ run = "sbc"
    /\ obs = [a |-> 128, m |-> 1, c |-> 1]
    /\ cpu.reg_a = 127
    /\ Contains(cpu.reg_status, CARRY)
    /\ Contains(cpu.reg_status, OVERFLOW)

--------------------------------------------------------------------------
(* The VRAM address under $2006 and $2007 *)

AddrBytes == {0, 32, 47, 63, 224, 255}
AddrCtrls == {0, 4}

\* obs in SpecAddr: the last operation, the PPU before it, the byte of the
\* last $2006 write, the byte of a first $2006 write when the operation
\* before the last one was that write, the operations done.
InitAddr ==
    /\ cpu = CPU_reset
    /\ bus = Bus_new
    /\ ppu \in {[PPU_new EXCEPT !.reg_controller = c] : c \in AddrCtrls}
    /\ run = "running"
    /\ obs = [op |-> "none", pre |-> PPU_new, value |-> 0, h |-> None, n |-> 0]

AddrWriteAddr ==
    /\ obs.n < MaxAddrOps
    /\ run = "running"
    /\ \E v \in AddrBytes :
       \E w \in {BusMemWrite(bus, ppu, 8198, v)} :
          /\ bus' = w.bus
          /\ ppu' = w.ppu
          /\ obs' = [op |-> "addr", pre |-> ppu, value |-> v,
                     h |-> IF obs.op = "addr" /\ obs.pre.reg_address.first_write
                           THEN Some(obs.value) ELSE None,
                     n |-> obs.n + 1]
    /\ UNCHANGED <<cpu, run>>

AddrWriteData ==
    /\ obs.n < MaxAddrOps
    /\ run = "running"
    /\ \E w \in {BusMemWrite(bus, ppu, 8199, 85)} :
          /\ bus' = w.bus
          /\ ppu' = w.ppu
          /\ run' = IF w.panic THEN "panicked" ELSE "running"
          /\ obs' = [op |-> "write", pre |-> ppu, value |-> 85, h |-> None, n |-> obs.n + 1]
    /\ UNCHANGED cpu

AddrReadData ==
    /\ obs.n < MaxAddrOps
    /\ run = "running"
    /\ \E r \in {BusMemRead(bus, ppu, 8199)} :
          /\ bus' = r.bus
          /\ ppu' = r.ppu
          /\ run' = IF r.panic THEN "panicked" ELSE "running"
          /\ obs' = [op |-> "read", pre |-> ppu, value |-> r.value, h |-> None, n |-> obs.n + 1]
    /\ UNCHANGED cpu

NextAddr == AddrWriteAddr \/ AddrWriteData \/ AddrReadData

SpecAddr == InitAddr /\ [][NextAddr]_vars

\* C33: the VRAM address is at most 0x3FFF in every reachable state; a
\* $2007 read or write that completes changes it from v to (v + 1) & 0x3FFF
\* when CTRL bit 2 is clear and to (v + 32) & 0x3FFF when it is set; $2006
\* writes h then l from the first-write position set it to
\* ((h << 8) | l) & 0x3FFF.
C33_VramAddress ==
    /\ addr_get(ppu.reg_address) <= 16383
    /\ (obs.op \in {"write", "read"} /\ run = "running") =>
           addr_get(ppu.reg_address) =
               (addr_get(obs.pre.reg_address)
                    + (IF Contains(obs.pre.reg_controller, 4) THEN 32 ELSE 1)) % 16384
    /\ (obs.op = "addr" /\ obs.h # None) =>
           addr_get(ppu.reg_address) = (obs.h[1] * 256 + obs.value) % 16384

\* A completed $2007 write at 0x2FE0 with CTRL bit 2 set: the address is
\* 0x3000, the carry into the high byte taken.
C33_Witness ==
    /\ run = "running"
    /\ obs.op = "write"
    /\ Contains(obs.pre.reg_controller, 4)
    /\ addr_get(obs.pre.reg_address) = 12256
    /\ addr_get(ppu.reg_address) = 12288

--------------------------------------------------------------------------
(* Nametable mirroring through $2006 and $2007 *)

NametableOffsets == 0..1023
Nametables == 0..3

NametableAddress(nt, k) == 8192 + nt * 1024 + k

\* The byte at a nametable address as a program reads it back: $2006 to the
\* address, a $2007 read that fills the read buffer, $2006 to 0x2000 and a
\* $2007 read that returns the buffer.
DataReadBack(b, p, addr) ==
    LET Second(w) == BusMemRead(w.bus, w.ppu, 8199)
        Rewind(r) == Second(SetVramAddress(r.bus, r.ppu, 8192))
        First(w) == Rewind(BusMemRead(w.bus, w.ppu, 8199))
    IN First(SetVramAddress(b, p, addr))

\* obs in SpecMirror: the offset, the nametable written through, the one
\* read through, the byte read.
InitMirror ==
    /\ cpu = CPU_reset
    /\ bus = Bus_new
    /\ ppu \in {[PPU_new EXCEPT !.mirroring = m] : m \in {"Horizontal", "Vertical"}}
    /\ run = "running"
    /\ \E k \in NametableOffsets : obs = [k |-> k, wrote |-> 0, read |-> 0, result |-> 0]

MirrorWrite ==
    /\ run = "running"
    /\ \E nt \in Nametables :
       \E a \in {SetVramAddress(bus, ppu, NametableAddress(nt, obs.k))} :
       \E w \in {BusMemWrite(a.bus, a.ppu, 8199, 85)} :
          /\ bus' = w.bus
          /\ ppu' = w.ppu
          /\ obs' = [obs EXCEPT !.wrote = nt]
    /\ run' = "written"
    /\ UNCHANGED cpu

MirrorRead ==
    /\ run = "written"
    /\ \E nt \in Nametables :
       \E r \in {DataReadBack(bus, ppu, NametableAddress(nt, obs.k))} :
          /\ bus' = r.bus
          /\ ppu' = r.ppu
          /\ obs' = [obs EXCEPT !.read = nt, !.result = r.value]
    /\ run' = "read"
    /\ UNCHANGED cpu

NextMirror == MirrorWrite \/ MirrorRead

SpecMirror == InitMirror /\ [][NextMirror]_vars

\* The page a nametable is to share under a mirroring.
MirrorPage(mirroring, nt) ==
    IF mirroring = "Horizontal" THEN nt \div 2 ELSE nt % 2

\* C34: for every offset k in 0..0x3FF, under Horizontal mirroring
\* nametables 0 and 1 map k to the same VRAM offset in page 0 and 2 and 3
\* to the same offset in page 1, under Vertical mirroring 0 and 2 map to
\* page 0 and 1 and 3 to page 1; a $2007 write through one nametable is
\* read back through its alias and not through a nametable of the other
\* page.
C34_NametableAliases ==
    /\ \A nt \in Nametables :
           mirror_vram(ppu.mirroring, NametableAddress(nt, obs.k))
               = MirrorPage(ppu.mirroring, nt) * 1024 + obs.k
    /\ run = "read" =>
           (obs.result = 85 <=>
                MirrorPage(ppu.mirroring, obs.read) = MirrorPage(ppu.mirroring, obs.wrote))

\* A byte written at the last offset of nametable 0 and read back through
\* nametable 1 under Horizontal mirroring.
C34_Witness ==
    /\ run = "read"
    /\ ppu.mirroring = "Horizontal"
    /\ obs = [k |-> 1023, wrote |-> 0, read |-> 1, result |-> 85]

--------------------------------------------------------------------------
(* OAM through $2003, $2004 and $4014 *)

OamAddrs == {0, 1, 128, 255}
OamValues == {17, 34}
DmaPages == {0, 2, 10, 32, 64, 128, 192, 255}
OamVramAddrs == {0, 12272}

\* The work RAM with a pattern in its page 2.
RamPattern == [i \in 512..767 |-> (i * 13 + 5) % 256]

\* obs in SpecOam: the last operation, its byte, the byte read, the Bus and
\* the PPU before it, the operations done.
InitOam ==
    /\ cpu = CPU_reset
    /\ bus = [Bus_new EXCEPT !.vram = RamPattern]
    /\ \E a \in OamVramAddrs :
          ppu = [PPU_new EXCEPT !.reg_address = addr_set(@, a)]
    /\ run = "running"
    /\ obs = [op |-> "none", value |-> 0, result |-> 0,
              prebus |-> Bus_new, pre |-> PPU_new, n |-> 0]

OamWriteTo(op, addr, v) ==
    /\ obs.n < MaxOamOps
    /\ run = "running"
    /\ \E w \in {BusMemWrite(bus, ppu, addr, v)} :
          /\ bus' = w.bus
          /\ ppu' = w.ppu
          /\ run' = IF w.panic THEN "panicked" ELSE "running"
    /\ obs' = [op |-> op, value |-> v, result |-> 0,
               prebus |-> bus, pre |-> ppu, n |-> obs.n + 1]
    /\ UNCHANGED cpu

OamSetAddr == \E o \in OamAddrs : OamWriteTo("addr", 8195, o)

OamWriteData == \E v \in OamValues : OamWriteTo("write", 8196, v)

OamDma == \E v \in DmaPages : OamWriteTo("dma", 16404, v)

OamReadData ==
    /\ obs.n < MaxOamOps
    /\ run = "running"
    /\ \E r \in {BusMemRead(bus, ppu, 8196)} :
          /\ bus' = r.bus
          /\ ppu' = r.ppu
          /\ obs' = [op |-> "read", value |-> 0, result |-> r.value,
                     prebus |-> bus, pre |-> ppu, n |-> obs.n + 1]
    /\ UNCHANGED <<cpu, run>>

NextOam == OamSetAddr \/ OamWriteData \/ OamDma \/ OamReadData

SpecOam == InitOam /\ [][NextOam]_vars

\* The byte at a CPU address before the last operation. The reads of the
\* work RAM, of the cartridge and of 0x4000-0x40FF leave the PPU as it is.
ByteBefore(addr) == BusMemRead(obs.prebus, obs.pre, addr).value

\* C35: a write of V to $4014 with OAMADDR = o stores, for every i in
\* 0..255, the byte read from CPU address (V << 8) + i into
\* OAM[(o + i) mod 256] and leaves OAMADDR equal to o; a write to $2004
\* stores one byte at OAM[OAMADDR] and increments OAMADDR with 8-bit wrap;
\* a read of $2004 returns OAM[OAMADDR] and leaves OAMADDR as it is.
C35_OamDmaAndData ==
    /\ obs.op = "dma" =>
           /\ run = "running"
           /\ ppu.oam_address = obs.pre.oam_address
           /\ obs.value \notin 32..63 =>
                  \A i \in 0..255 :
                      OamByte(ppu, (obs.pre.oam_address + i) % 256)
                          = ByteBefore(obs.value * 256 + i)
    /\ obs.op = "write" =>
           /\ OamByte(ppu, obs.pre.oam_address) = obs.value
           /\ \A i \in 0..255 :
                  i # obs.pre.oam_address => OamByte(ppu, i) = OamByte(obs.pre, i)
           /\ ppu.oam_address = (obs.pre.oam_address + 1) % 256
    /\ obs.op = "read" =>
           /\ obs.result = OamByte(obs.pre, obs.pre.oam_address)
           /\ ppu = obs.pre

--------------------------------------------------------------------------
(* The sprite-zero hit in the first scanlines of a frame *)

SpriteZeroYs == {0, 1, 2}
SpriteZeroXs == {0, 100, 255}
SpriteMasks == {0, SHOW_SPRITES}

\* The PPU after writes to $2001, $2003 and $2004: the mask, and the Y and
\* the X of sprite 0 (OAM bytes 0 and 3).
InitSprite ==
    /\ cpu = CPU_reset
    /\ bus = Bus_new
    /\ \E mask \in SpriteMasks, y \in SpriteZeroYs, x \in SpriteZeroXs :
          ppu = write_to_oam_data(
                    write_to_oam_address(
                        write_to_oam_data(
                            write_to_oam_address(write_to_reg_mask(PPU_new, mask), 0), y), 3), x)
    /\ run = "running"
    /\ obs = [op |-> "none", dots |-> 0, total |-> 0, pre |-> PPU_new]

\* obs: the dots of the last tick, the dots ticked so far, the PPU before
\* the last tick.
SpriteTick ==
    /\ obs.total < MaxSpriteDots
    /\ \E cycles \in TickCycles :
       \E t \in {BusTick(bus, ppu, cycles)} :
          /\ bus' = t.bus
          /\ ppu' = t.ppu
          /\ obs' = [op |-> "tick", dots |-> 3 * cycles, total |-> obs.total + 3 * cycles,
                     pre |-> ppu]
    /\ UNCHANGED <<cpu, run>>

NextSprite == SpriteTick

SpecSprite == InitSprite /\ [][NextSprite]_vars

\* The dots the last tick covered, as <<scanline, dot>>: from the dot it
\* started at to the end of the scanline or of the tick, and the dots of the
\* next scanline it went into.
CoveredDots ==
    LET c1 == obs.pre.cycles + obs.dots
        last == IF c1 >= SCANLINE_PPU_CYCLE_LIMIT THEN SCANLINE_PPU_CYCLE_LIMIT - 1 ELSE c1
    IN {<<obs.pre.scanline, d>> : d \in obs.pre.cycles..last}
           \cup {<<(obs.pre.scanline + 1) % FRAME_SCANLINE_LIMIT, d>> :
                     d \in 0..(c1 - SCANLINE_PPU_CYCLE_LIMIT)}

\* Sprite 0 is hit at a dot: its Y is the scanline, its X at most the dot,
\* and MASK.ShowSprites is set.
SpriteZeroAt(sd) ==
    /\ OamByte(obs.pre, 0) = sd[1]
    /\ OamByte(obs.pre, 3) <= sd[2]
    /\ is_sprite_enabled(obs.pre.reg_mask)

\* C36: STATUS.SpriteZeroHit becomes set during a tick only if, at some dot
\* covered by that tick, OAM entry 0's Y equals the scanline, its X is at
\* most the dot and MASK.ShowSprites is set; it is set at the first such
\* dot, so the status has it after the tick that covers that dot; a tick
\* never sets it while MASK.ShowSprites is clear.
C36_SpriteZeroHit ==
    obs.op = "tick" =>
        /\ (Contains(ppu.reg_status, SPRITE_ZERO_HIT)
                /\ ~Contains(obs.pre.reg_status, SPRITE_ZERO_HIT)) =>
               \E sd \in CoveredDots : SpriteZeroAt(sd)
        /\ (\E sd \in CoveredDots : SpriteZeroAt(sd)) =>
               Contains(ppu.reg_status, SPRITE_ZERO_HIT)
        /\ ~is_sprite_enabled(obs.pre.reg_mask) =>
               (Contains(ppu.reg_status, SPRITE_ZERO_HIT)
                    => Contains(obs.pre.reg_status, SPRITE_ZERO_HIT))

--------------------------------------------------------------------------
(* The vertical blank and the pending NMI over the step loop *)

\* C37: in every reachable PPU state, if STATUS.VBlank is set or an NMI is
\* pending then the scanline counter is in 241..261: neither survives the
\* frame rollover into scanline 0 and neither is raised during scanlines
\* 0..240.
C37_VblankOnlyInVblankLines ==
    (in_vblank(ppu.reg_status) \/ ppu.nmi_interrupt # None) =>
        ppu.scanline \in VBLANK_SCANLINE_LIMIT..(FRAME_SCANLINE_LIMIT - 1)

\* The last scanline with STATUS.VBlank set and an NMI pending, no NMI
\* having been serviced in the frame: the latch is the one of a write to
\* $2000 on that scanline or of the tick into scanline 241.
C37_Witness ==
    /\ ppu.scanline = FRAME_SCANLINE_LIMIT - 1
    /\ in_vblank(ppu.reg_status)
    /\ ppu.nmi_interrupt # None

--------------------------------------------------------------------------
(* PRG reads of a UxROM cartridge after bank selects *)

\* C38: for a UxROM cartridge with n PRG banks (n >= 1), after any sequence
\* of bank selects, every CPU read in 0x8000-0xFFFF maps to a PRG offset
\* smaller than n x 0x4000: no bank register value makes a PRG read fall
\* outside the PRG-ROM.
C38_PrgReadInsideRom ==
    obs.op = "map_prg" =>
        PrgIndex(bus.cartridge, obs.arg) < bus.cartridge.mapper.prg_banks * ROM_BANK_SIZE

--------------------------------------------------------------------------
(* Nametable accesses under every mirroring that ROM::new produces *)

ScreenControlOne == {0, 1, 8, 9}
ScreenAddrs == {NametableAddress(nt, k) : nt \in Nametables, k \in {0, 1, 512, 960, 1023}}

\* The image of a header with one PRG page, one CHR page and the given
\* first control byte.
ScreenBinary(one) ==
    LET head == NES_IDENTIFIER_TAG \o <<1, 1, one, 0>>
    IN Binary(ImageLength(head), head)

InitScreen ==
    /\ cpu = CPU_reset
    /\ bus = Bus_new
    /\ ppu = PPU_new
    /\ run = "loading"
    /\ obs = [op |-> "none", addr |-> 0]

\* ROM::new on the image, and Bus::new, which hands the ROM's mirroring to
\* PPU::new.
ScreenLoad ==
    /\ run = "loading"
    /\ \E one \in ScreenControlOne :
       \E r \in {ROM_new(ScreenBinary(one))} :
          /\ r.kind = "Ok"
          /\ ppu' = [PPU_new EXCEPT !.mirroring = r.mirroring_type]
    /\ run' = "running"
    /\ obs' = [op |-> "load", addr |-> 0]
    /\ UNCHANGED <<cpu, bus>>

ScreenWrite ==
    /\ run = "running"
    /\ \E a \in ScreenAddrs :
       \E s \in {SetVramAddress(bus, ppu, a)} :
       \E w \in {BusMemWrite(s.bus, s.ppu, 8199, 85)} :
          /\ bus' = w.bus
          /\ ppu' = w.ppu
          /\ run' = IF w.panic THEN "panicked" ELSE "done"
          /\ obs' = [op |-> "write", addr |-> a]
    /\ UNCHANGED cpu

ScreenRead ==
    /\ run = "running"
    /\ \E a \in ScreenAddrs :
       \E s \in {SetVramAddress(bus, ppu, a)} :
       \E r \in {BusMemRead(s.bus, s.ppu, 8199)} :
          /\ bus' = r.bus
          /\ ppu' = r.ppu
          /\ run' = IF r.panic THEN "panicked" ELSE "done"
          /\ obs' = [op |-> "read", addr |-> a]
    /\ UNCHANGED cpu

NextScreen == ScreenLoad \/ ScreenWrite \/ ScreenRead

SpecScreen == InitScreen /\ [][NextScreen]_vars

\* C39: for every mirroring kind that the iNES parser produces
\* (Horizontal, Vertical, FourScreen) and every PPU address in
\* 0x2000-0x2FFF, mirror_vram returns an offset below 0x800, so every
\* $2007 nametable read or write stays inside the 2 KiB VRAM.
C39_NametableInsideVram ==
    /\ run = "running" =>
           \A a \in ScreenAddrs : mirror_vram(ppu.mirroring, a) < 2048
    /\ run # "panicked"

--------------------------------------------------------------------------
(* The joypad's read index past the eighth read *)

\* C40: the joypad's read index never exceeds 8; once eight reads have been
\* made with the strobe low, every further read of $4016 returns 1 and
\* leaves the index at 8, and a write with bit 0 clear leaves it there too,
\* until a write with bit 0 set resets it; set_pressed never changes the
\* index or the strobe.
C40_IndexStopsAtEight ==
    [][ /\ bus'.joypad.button_index <= 8
        /\ (obs'.op = "read" /\ bus.joypad.button_index = 8) =>
               /\ obs'.result = 1
               /\ bus'.joypad.button_index = 8
        /\ (obs'.op = "write" /\ obs'.value % 2 = 0) =>
               bus'.joypad.button_index = bus.joypad.button_index
        /\ (obs'.op = "write" /\ obs'.value % 2 = 1) =>
               bus'.joypad.button_index = 0
        /\ obs'.op = "set_pressed" =>
               /\ bus'.joypad.button_index = bus.joypad.button_index
               /\ bus'.joypad.strobe_status = bus.joypad.strobe_status
      ]_vars

\* A read after the eight reads of a low strobe: it found the index at 8,
\* returned 1 with every button released, and left the index at 8.
C40_Witness ==
    /\ obs.op = "read" /\ obs.armed /\ obs.k = 9
    /\ obs.pre.button_index = 8
    /\ obs.pre.button_status = 0
    /\ obs.result = 1
    /\ bus.joypad.button_index = 8

==========================================================================
